---- MODULE Spec2Model ----
(***************************************************************************)
(* Gold SIP calculator (src/gold_sip_calculator.py): GoldSIPCalculator's   *)
(* calculate_sip_returns, calculate_monthly_breakdown,                     *)
(* generate_summary_text and get_live_gold_price, as a state machine of    *)
(* calls on one calculator instance.                                       *)
(*                                                                         *)
(* Python numbers are modelled as what CPython computes: a float is an     *)
(* IEEE-754 binary64 value, every arithmetic operator rounds its exact     *)
(* result to the nearest binary64 (ties to even), and round(x, n) is the   *)
(* correctly rounded n-decimal value of the exact binary x.  Since TLC's   *)
(* integers are 32 bits wide, significands are kept as natural numbers in  *)
(* base 2^14 (little-endian digit sequences).                              *)
(***************************************************************************)
EXTENDS Integers, Sequences, FiniteSets, TLC

-----------------------------------------------------------------------------
(* Natural numbers of any size: little-endian sequences of base-2^14       *)
(* digits, without leading zero digits (the empty sequence is zero).  TLC  *)
(* evaluates on a small stack, so the digit loops are written with         *)
(* quantifiers instead of recursion wherever a closed form exists.         *)

DigitBits == 14
Base == 2 ^ DigitBits

Min(i, j) == IF i <= j THEN i ELSE j
Max(i, j) == IF i >= j THEN i ELSE j
MaxOf(S) == CHOOSE m \in S : \A j \in S : j <= m
MinOf(S) == CHOOSE m \in S : \A j \in S : m <= j

Dig(a, i) == IF i >= 1 /\ i <= Len(a) THEN a[i] ELSE 0

BNorm(a) ==
  IF Len(a) = 0 \/ a[Len(a)] # 0 THEN a
  ELSE IF \A i \in 1..Len(a) : a[i] = 0 THEN << >>
  ELSE SubSeq(a, 1, MaxOf({i \in 1..Len(a) : a[i] # 0}))

\* a native 0 <= n < 2^31
BFromInt(n) == BNorm(<<n % Base, (n \div Base) % Base, n \div (Base * Base)>>)

\* the native value of a natural number below 2^28
BToInt(a) == Dig(a, 1) + Dig(a, 2) * Base

\* -1, 0 or 1
BCmp(a, b) ==
  IF Len(a) > Len(b) THEN 1
  ELSE IF Len(a) < Len(b) THEN -1
  ELSE IF a = b THEN 0
  ELSE LET m == MaxOf({i \in 1..Len(a) : a[i] # b[i]})
       IN  IF a[m] > b[m] THEN 1 ELSE -1

\* the carry into digit i of a sum whose digit sums are s: the nearest digit
\* below i that does not propagate a carry generates one
CarryIn(s, i, base) ==
  IF i = 1 THEN 0
  ELSE IF s[i - 1] # base - 1 THEN (IF s[i - 1] >= base THEN 1 ELSE 0)
  ELSE IF \E j \in 1..(i - 2) : s[j] >= base /\ \A k \in (j + 1)..(i - 2) : s[k] = base - 1
       THEN 1 ELSE 0

\* the number whose digit sums, before the carries, are s
BCarry(s) == BNorm([i \in 1..Len(s) |-> (s[i] + CarryIn(s, i, Base)) % Base])

BAdd(a, b) == BCarry([i \in 1..(Max(Len(a), Len(b)) + 1) |-> Dig(a, i) + Dig(b, i)])

\* the borrow into digit i of a difference whose digit differences are d
BorrowIn(d, i) ==
  IF i = 1 THEN 0
  ELSE IF d[i - 1] # 0 THEN (IF d[i - 1] < 0 THEN 1 ELSE 0)
  ELSE IF \E j \in 1..(i - 2) : d[j] < 0 /\ \A k \in (j + 1)..(i - 2) : d[k] = 0
       THEN 1 ELSE 0

\* the number whose digit differences, before the borrows, are d
BBorrow(d) == BNorm([i \in 1..Len(d) |-> (d[i] - BorrowIn(d, i) + Base) % Base])

\* a - b for a >= b
BSub(a, b) == BBorrow([i \in 1..Len(a) |-> a[i] - Dig(b, i)])

\* a * k for a native 0 <= k < Base
BMulSmall(a, k) ==
  IF k = 0 \/ Len(a) = 0 THEN << >>
  ELSE BAdd([i \in 1..Len(a) |-> (a[i] * k) % Base],
            <<0>> \o [i \in 1..Len(a) |-> (a[i] * k) \div Base])

\* column k of the product u * v, for v of at most 7 digits
BMulCol(u, v, k) ==
    Dig(v, 1) * Dig(u, k)     + Dig(v, 2) * Dig(u, k - 1) + Dig(v, 3) * Dig(u, k - 2)
  + Dig(v, 4) * Dig(u, k - 3) + Dig(v, 5) * Dig(u, k - 4) + Dig(v, 6) * Dig(u, k - 5)
  + Dig(v, 7) * Dig(u, k - 6)

\* the number whose columns, each below Base^3, are col
BMulSum(col) ==
  BAdd(BAdd([k \in 1..Len(col) |-> col[k] % Base],
            <<0>> \o [k \in 1..Len(col) |-> (col[k] \div Base) % Base]),
       <<0, 0>> \o [k \in 1..Len(col) |-> col[k] \div (Base * Base)])

\* u * v for v of at most 7 digits
BMulShort(u, v) == BMulSum([k \in 1..(Len(u) + Len(v)) |-> BMulCol(u, v, k)])

\* a * b, one of them of at most 7 digits
BMul(a, b) ==
  IF Len(a) = 0 \/ Len(b) = 0 THEN << >>
  ELSE BMulShort(IF Len(a) >= Len(b) THEN a ELSE b, IF Len(a) >= Len(b) THEN b ELSE a)

\* quotient and remainder of a by a native 0 < k < Base
RECURSIVE BDivSmallAt(_, _, _, _)
BDivSmallAt(a, k, i, rem) ==
  IF i = 0 THEN [q |-> << >>, r |-> rem]
  ELSE LET lo == BDivSmallAt(a, k, i - 1, (rem * Base + a[i]) % k)
       IN  [q |-> lo.q \o <<(rem * Base + a[i]) \div k>>, r |-> lo.r]

BDivSmall(a, k) ==
  LET d == BDivSmallAt(a, k, Len(a), 0) IN [q |-> BNorm(d.q), r |-> d.r]

\* the bit length of a native 0 <= n < 2^16
IntBitLen(n) == Cardinality({k \in 0..15 : 2 ^ k <= n})

BBitLen(a) == IF Len(a) = 0 THEN 0 ELSE DigitBits * (Len(a) - 1) + IntBitLen(a[Len(a)])

\* a * 2^n
BShl(a, n) ==
  IF Len(a) = 0 THEN a
  ELSE LET r == n % DigitBits
       IN  [i \in 1..(n \div DigitBits) |-> 0]
             \o BNorm([i \in 1..(Len(a) + 1) |->
                         ((Dig(a, i) * (2 ^ r)) % Base) + (Dig(a, i - 1) \div (2 ^ (DigitBits - r)))])

\* floor(a / 2^n)
BShr(a, n) ==
  IF n \div DigitBits >= Len(a) THEN << >>
  ELSE LET q == n \div DigitBits
           r == n % DigitBits
       IN  BNorm([i \in 1..(Len(a) - q) |->
                    (a[i + q] \div (2 ^ r)) + ((Dig(a, i + q + 1) % (2 ^ r)) * (2 ^ (DigitBits - r)))])

\* a mod 2^n
BLow(a, n) ==
  BNorm([i \in 1..(n \div DigitBits + 1) |->
           IF i <= n \div DigitBits THEN Dig(a, i) ELSE Dig(a, i) % (2 ^ (n % DigitBits))])

\* a mod 2^n compared with 2^(n-1): -1, 0 or 1 (n >= 1)
BLowCmpHalf(a, n) == BCmp(BLow(a, n), BShl(<<1>>, n - 1))

BIsOdd(a) == Len(a) > 0 /\ a[1] % 2 = 1

\* the number of trailing zero bits of a > 0
BTrailingZeros(a) ==
  LET f == MinOf({i \in 1..Len(a) : a[i] # 0})
  IN  DigitBits * (f - 1) + Cardinality({k \in 1..DigitBits : a[f] % (2 ^ k) = 0})

\* one quotient digit of r by d, for r < d * Base and d's top digit >= Base/2:
\* the largest g with d * g <= r, which lies at most 4 below the estimate from
\* the top digits
BQDigit(r, d) ==
  IF Len(r) < Len(d) THEN 0
  ELSE LET high == Min(Base - 1,
                       ((IF Len(r) = Len(d) THEN r[Len(d)]
                         ELSE r[Len(d) + 1] * Base + r[Len(d)]) + 1) \div d[Len(d)])
       IN  MaxOf({g \in Max(0, high - 4)..high : BCmp(BMulSmall(d, g), r) <= 0})

\* the quotient digit g joins the digits q, and leaves the rest of r
BQTake(q, r, d, g) == [q |-> <<g>> \o q, r |-> BSub(r, BMulSmall(d, g))]

\* one step of the long division: digit x of the dividend comes down
BLongDivStep(x, d, st) ==
  BQTake(st.q, BNorm(<<x>> \o st.r), d, BQDigit(BNorm(<<x>> \o st.r), d))

\* the long division of n by d from digit i of n down, entered with the
\* quotient digits found and the remainder so far
RECURSIVE BLongDivAt(_, _, _, _)
BLongDivAt(n, d, i, st) ==
  IF i = 0 THEN st ELSE BLongDivAt(n, d, i - 1, BLongDivStep(n[i], d, st))

\* n divided by d, from the k low digits of n on, for d's top digit >= Base/2
BLongDiv(n, d, k) ==
  BLongDivAt(n, d, k, [q |-> << >>, r |-> BNorm(SubSeq(n, k + 1, Len(n)))])

BDivResult(l) == [q |-> BNorm(l.q), exact |-> Len(l.r) = 0]

BDivShifted(n, d) == BDivResult(BLongDiv(n, d, Max(0, Len(n) - Len(d) + 1)))

\* floor(n / d) and whether the division is exact, for d > 0
BDivMod(n, d) ==
  BDivShifted(BShl(n, DigitBits - IntBitLen(d[Len(d)])),
              BShl(d, DigitBits - IntBitLen(d[Len(d)])))

\* a^n, n >= 1, for a of at most 7 digits
RECURSIVE BPow(_, _)
BPow(a, n) ==
  IF n = 1 THEN a
  ELSE LET p == BPow(a, n - 1) IN IF Len(p) = 0 THEN p ELSE BMul(p, a)

\* floor(sqrt(t)) for a native t < 2^28
IntSqrt(t) ==
  LET h == Cardinality({h \in 1..127 : (h * 128) * (h * 128) <= t})
  IN  h * 128 + Cardinality({l \in 1..127 : (h * 128 + l) * (h * 128 + l) <= t})

\* steps of Newton's iteration for sqrt(n), from x
RECURSIVE BSqrtNewton(_, _, _)
BSqrtNewton(n, x, steps) ==
  IF steps = 0 \/ Len(x) = 0 THEN x
  ELSE BSqrtNewton(n, BShr(BAdd(x, BDivMod(n, x).q), 1), steps - 1)

\* an estimate of sqrt(n) from above: the root of the top 27 or 28 bits of n,
\* which are the bits above the even number sh of low bits
BSqrtStart(n, sh) == BShl(BFromInt(IntSqrt(BToInt(BShr(n, sh))) + 1), sh \div 2)

BSquareLe(g, n) == BCmp(BMul(g, g), n) <= 0

\* floor(sqrt(n)), given an x within 2 of it
BSqrtNear(n, x) ==
  CHOOSE g \in {BSub(x, <<2>>), BSub(x, <<1>>), x, BAdd(x, <<1>>)} :
    BSquareLe(g, n) /\ ~BSquareLe(BAdd(g, <<1>>), n)

\* floor(sqrt(n)) for n >= 2^56: Newton's iteration from above reaches the
\* root within 1 in three steps
BSqrt(n) ==
  BSqrtNear(n, BSqrtNewton(n, BSqrtStart(n, (BBitLen(n) - 27) - ((BBitLen(n) - 27) % 2)), 3))

-----------------------------------------------------------------------------
(* A Python float: sgn * man * 2^exp with man an odd natural number below  *)
(* 2^53, or a zero: man empty, exp 0, and sgn telling 0.0 from -0.0.  The  *)
(* representation is unique, so floats of the same bits are equal records; *)
(* Python's == (which finds 0.0 == -0.0) is FEq.                            *)

MantBits == 53

FZero == [sgn |-> 1, man |-> << >>, exp |-> 0]

FIsZero(a) == Len(a.man) = 0

\* s * n * 2^e for n > 0 with z trailing zero bits
Odd(s, n, e, z) == [sgn |-> s, man |-> BShr(n, z), exp |-> e + z]

Canon(s, n, e) ==
  IF Len(n) = 0 THEN [sgn |-> s, man |-> << >>, exp |-> 0]
  ELSE Odd(s, n, e, BTrailingZeros(n))

\* hi, or hi + 1 when the part dropped below hi rounds up: c is that part
\* against one half (-1, 0, 1), sticky a further nonzero fraction below it
HalfEven(hi, c, sticky) ==
  IF c > 0 \/ (c = 0 /\ (sticky \/ BIsOdd(hi))) THEN BAdd(hi, <<1>>) ELSE hi

\* s * n * 2^e (plus, when sticky, a nonzero fraction below n's last bit)
\* rounded to the nearest float, ties to even
RoundMan(s, n, e, sticky) ==
  IF BBitLen(n) <= MantBits THEN Canon(s, n, e)
  ELSE Canon(s, HalfEven(BShr(n, BBitLen(n) - MantBits),
                         BLowCmpHalf(n, BBitLen(n) - MantBits), sticky),
             e + BBitLen(n) - MantBits)

\* s * dm * 2^e rounded to the nearest float, for a quotient dm of BDivMod
RoundQuot(s, dm, e) == RoundMan(s, dm.q, e, ~dm.exact)

\* s * (n / d) * 2^e rounded to the nearest float, ties to even: the quotient
\* is taken with k extra bits, enough for the rounding
RoundRatAt(s, n, d, e, k) == RoundQuot(s, BDivMod(BShl(n, k), d), e - k)

RoundRat(s, n, d, e) ==
  IF Len(n) = 0 THEN Canon(s, n, 0)
  ELSE RoundRatAt(s, n, d, e, Max(0, MantBits + 3 + BBitLen(d) - BBitLen(n)))

FromInt(n) == Canon(IF n < 0 THEN -1 ELSE 1, BFromInt(IF n < 0 THEN -n ELSE n), 0)

\* the float literal n / 10^k, as Python parses a decimal literal
Dec(n, k) ==
  RoundRat(IF n < 0 THEN -1 ELSE 1, BFromInt(IF n < 0 THEN -n ELSE n), BFromInt(10 ^ k), 0)

\* the largest binary exponent of a finite float
MaxTop == 1024

\* the floats that are not numbers of the form above keep its shape: an
\* infinity has an exponent beyond every finite float's, so that it compares
\* as the largest magnitude, and nan one beyond that
Inf(s) == [sgn |-> s, man |-> <<1>>, exp |-> 2 * MaxTop]

NaN == [sgn |-> 1, man |-> <<1>>, exp |-> 4 * MaxTop]

IsInf(a) == a.exp = 2 * MaxTop

IsNan(a) == a.exp = 4 * MaxTop

\* the position of the top bit
FTop(a) == BBitLen(a.man) + a.exp

\* the result r of rounding as a float has it: the infinity it overflows
\* to, or the zero it underflows to when it is below half the least float
\* (the numbers of the model stay clear of the subnormal range in between)
Finite(r) ==
  IF FTop(r) > MaxTop THEN Inf(r.sgn)
  ELSE IF ~FIsZero(r) /\ FTop(r) < 3 - MaxTop - MantBits
  THEN [sgn |-> r.sgn, man |-> << >>, exp |-> 0]
  ELSE r

FNeg(a) == IF IsNan(a) THEN a ELSE [a EXCEPT !.sgn = -a.sgn]

FMul(a, b) ==
  IF IsNan(a) \/ IsNan(b) THEN NaN
  ELSE IF IsInf(a) \/ IsInf(b)
  THEN (IF FIsZero(a) \/ FIsZero(b) THEN NaN ELSE Inf(a.sgn * b.sgn))
  ELSE Finite(RoundMan(a.sgn * b.sgn, BMul(a.man, b.man), a.exp + b.exp, FALSE))

\* a / b for b # 0
FDiv(a, b) ==
  IF IsNan(a) \/ IsNan(b) THEN NaN
  ELSE IF IsInf(a) THEN (IF IsInf(b) THEN NaN ELSE Inf(a.sgn * b.sgn))
  ELSE IF IsInf(b) THEN Canon(a.sgn * b.sgn, << >>, 0)
  ELSE Finite(RoundRat(a.sgn * b.sgn, a.man, b.man, a.exp - b.exp))

\* as * am * 2^e + bs * bm * 2^e for am, bm > 0
FAddAligned(as, am, bs, bm, e) ==
  IF as # bs /\ BCmp(am, bm) = 0 THEN FZero
  ELSE Finite(RoundMan(IF as = bs \/ BCmp(am, bm) > 0 THEN as ELSE bs,
                       IF as = bs THEN BAdd(am, bm)
                       ELSE IF BCmp(am, bm) > 0 THEN BSub(am, bm) ELSE BSub(bm, am),
                       e, FALSE))

FAdd(a, b) ==
  IF IsNan(a) \/ IsNan(b) THEN NaN
  ELSE IF IsInf(a) THEN (IF IsInf(b) /\ a.sgn # b.sgn THEN NaN ELSE a)
  ELSE IF IsInf(b) THEN b
  ELSE IF FIsZero(a) /\ FIsZero(b) THEN (IF a.sgn < 0 /\ b.sgn < 0 THEN a ELSE FZero)
  ELSE IF FIsZero(a) THEN b
  ELSE IF FIsZero(b) THEN a
  ELSE IF FTop(a) - FTop(b) > MantBits + 7 THEN a
  ELSE IF FTop(b) - FTop(a) > MantBits + 7 THEN b
  ELSE FAddAligned(a.sgn, BShl(a.man, a.exp - Min(a.exp, b.exp)),
                   b.sgn, BShl(b.man, b.exp - Min(a.exp, b.exp)), Min(a.exp, b.exp))

FSub(a, b) == FAdd(a, FNeg(b))

FSign(a) == IF FIsZero(a) THEN 0 ELSE a.sgn

\* |a| against |b| for nonzero a, b: -1, 0 or 1
FMagCmp(a, b) ==
  IF FTop(a) > FTop(b) THEN 1
  ELSE IF FTop(a) < FTop(b) THEN -1
  ELSE BCmp(BShl(a.man, a.exp - Min(a.exp, b.exp)),
            BShl(b.man, b.exp - Min(a.exp, b.exp)))

FCmp(a, b) ==
  IF FSign(a) # FSign(b) THEN (IF FSign(a) > FSign(b) THEN 1 ELSE -1)
  ELSE IF FSign(a) = 0 THEN 0
  ELSE FSign(a) * FMagCmp(a, b)

\* Python's ==, <, <= and >: every comparison with nan is false
FEq(a, b) == ~IsNan(a) /\ ~IsNan(b) /\ FCmp(a, b) = 0
FLt(a, b) == ~IsNan(a) /\ ~IsNan(b) /\ FCmp(a, b) < 0
FLe(a, b) == ~IsNan(a) /\ ~IsNan(b) /\ FCmp(a, b) <= 0
FGt(a, b) == ~IsNan(a) /\ ~IsNan(b) /\ FCmp(a, b) > 0

\* floor(t / 2^k + 1/2), an exact tie to the even number
ShiftRound(t, k) == HalfEven(BShr(t, k), BLowCmpHalf(t, k), FALSE)

\* |a| * 10^n rounded to a whole number, an exact tie to the even one
ScaledRound(a, n) ==
  IF a.exp >= 0 THEN BMulSmall(BShl(a.man, a.exp), 10 ^ n)
  ELSE ShiftRound(BMulSmall(a.man, 10 ^ n), -a.exp)

\* Python's round(x, n) of a float, 0 <= n <= 4: the exact binary value of x
\* rounded to n decimals (an exact tie to the even digit), as a float
PyRound(a, n) ==
  IF a.exp >= 0 THEN a
  ELSE RoundRat(a.sgn, ScaledRound(a, n), BFromInt(10 ^ n), 0)

\* floor(a) as a native integer, for |a| < 2^28
FFloor(a) ==
  IF FIsZero(a) THEN 0
  ELSE IF a.exp >= 0 THEN a.sgn * BToInt(a.man) * (2 ^ a.exp)
  ELSE IF a.sgn > 0 THEN BToInt(BShr(a.man, -a.exp))
  ELSE -(BToInt(BShr(a.man, -a.exp)) + 1)

\* a float is integral when its odd significand carries no negative exponent
FIsIntegral(a) == a.exp >= 0

\* s * hi * 2^e when that is the exact value, else it and the float above
Around(s, hi, e, exact) ==
  IF exact THEN {Canon(s, hi, e)} ELSE {Canon(s, hi, e), Canon(s, BAdd(hi, <<1>>), e)}

\* the floats next to s * n * 2^e (plus, when sticky, a nonzero fraction): the
\* value itself when it is a float, else the float below and the float above
Neighbours(s, n, e, sticky) ==
  IF BBitLen(n) <= MantBits THEN {Canon(s, n, e)}
  ELSE Around(s, BShr(n, BBitLen(n) - MantBits), e + BBitLen(n) - MantBits,
              Len(BLow(n, BBitLen(n) - MantBits)) = 0 /\ ~sticky)

\* the floats next to the square root q (plus a fraction) of n, scaled by 2^e
SqrtAround(n, q, e) == Neighbours(1, q, e, BCmp(BMul(q, q), n) # 0)

\* the floats next to sqrt(a) for a > 0, the root taken of the significand
\* shifted by s bits, with a.exp - s even
SqrtAt(a, s) == SqrtAround(BShl(a.man, s), BSqrt(BShl(a.man, s)), (a.exp - s) \div 2)

\* the C library's pow(a, y) for a # 0 and an exponent y > 0 that is a whole
\* number or 0.5 (with a > 0): libm's pow is accurate to less than one unit in
\* the last place, not correctly rounded, so it returns the exact power when
\* that is a float and else either of the two floats around it
LibmPow(a, y) ==
  IF FIsIntegral(y)
  THEN Neighbours(IF FFloor(y) % 2 = 0 THEN 1 ELSE a.sgn,
                  BPow(a.man, FFloor(y)), a.exp * FFloor(y), FALSE)
  ELSE SqrtAt(a, 2 * MantBits + 4 + ((a.exp + 2 * MantBits + 4) % 2))

\* Python's float ** float (float_pow) for an exponent y > 0 that is 0.5 or a
\* whole number: the outcomes it can have.  A negative base to a fractional
\* power gives a complex number; a result too large for a float raises
\* OverflowError.
FPow(a, y) ==
  IF IsNan(a) THEN {[kind |-> "float", val |-> NaN]}
  ELSE IF IsInf(a)
  THEN {[kind |-> "float",
         val |-> Inf(IF FIsIntegral(y) /\ FFloor(y) % 2 = 1 THEN a.sgn ELSE 1)]}
  ELSE IF FIsZero(a)
  THEN {[kind |-> "float",
         val |-> IF FIsIntegral(y) /\ FFloor(y) % 2 = 1 THEN a ELSE FZero]}
  ELSE IF a.sgn < 0 /\ ~FIsIntegral(y) THEN {[kind |-> "complex"]}
  ELSE {IF FTop(r) > MaxTop THEN [kind |-> "OverflowError"]
        ELSE [kind |-> "float", val |-> Finite(r)] : r \in LibmPow(a, y)}

-----------------------------------------------------------------------------
(* Python values of the calculator.  None is the empty sequence and a      *)
(* datetime.date is the one-element sequence of its proleptic Gregorian    *)
(* ordinal (date.toordinal()), so that "if start_date" is "start_date is   *)
(* not None".  A number is a float record; an int argument has the float   *)
(* of the same value (every int of the model is far below 2^53, where int  *)
(* and float arithmetic agree), and a number is an int when integral.      *)

None == << >>

\* start_date + datetime.timedelta(days=days) for a float number of days: the
\* date moves by the whole days of the timedelta
DatePlusDays(start_date, days) == <<start_date[1] + FFloor(days)>>

\* the decimal digits of a natural number, most significant first
RECURSIVE BDecimal(_)

\* the digits of qr.q * 10000 + qr.r, four digits at a time
BDecimalJoin(qr) ==
  IF Len(qr.q) = 0
  THEN SubSeq(<<qr.r \div 1000, (qr.r \div 100) % 10, (qr.r \div 10) % 10, qr.r % 10>>,
              4 - Cardinality({p \in {1, 10, 100, 1000} : p <= qr.r}) + 1, 4)
  ELSE BDecimal(qr.q)
       \o <<qr.r \div 1000, (qr.r \div 100) % 10, (qr.r \div 10) % 10, qr.r % 10>>

BDecimal(n) ==
  IF Len(n) = 0 THEN << >> ELSE BDecimalJoin(BDivSmall(n, 10000))

DigitChar(d) == <<"0", "1", "2", "3", "4", "5", "6", "7", "8", "9">>[d + 1]

DigitChars(ds) == [i \in 1..Len(ds) |-> DigitChar(ds[i])]

\* the digits ds, with zeros in front up to the given width
ZeroPad(ds, width) == [i \in 1..Max(0, width - Len(ds)) |-> 0] \o ds

\* the character that has back characters after it in the ni digits ds of a
\* whole number written in groups of three
GroupedChar(ds, ni, back) ==
  IF back % 4 = 3 THEN "," ELSE DigitChar(ds[ni - (back - (back \div 4))])

\* the ni leading digits of ds as a whole number, in groups of three or not
IntegerPart(ds, ni, grouping) ==
  IF grouping
  THEN [i \in 1..(ni + (ni - 1) \div 3) |-> GroupedChar(ds, ni, ni + ((ni - 1) \div 3) - i)]
  ELSE [i \in 1..ni |-> DigitChar(ds[i])]

\* the digits ds as a number of n decimals
FormatDigits(ds, n, grouping) ==
  IntegerPart(ds, Len(ds) - n, grouping)
  \o (IF n = 0 THEN << >> ELSE <<".">>)
  \o [i \in 1..n |-> DigitChar(ds[Len(ds) - n + i])]

\* format(a, ".nf") or, with grouping, format(a, ",.nf"): the characters of
\* the text
FormatFixed(a, n, grouping) ==
  IF IsNan(a) THEN <<"n", "a", "n">>
  ELSE (IF a.sgn < 0 THEN <<"-">> ELSE << >>)
       \o (IF IsInf(a) THEN <<"i", "n", "f">>
           ELSE FormatDigits(ZeroPad(BDecimal(ScaledRound(a, n)), n + 1), n, grouping))

\* the text t without its trailing zeros
StripZeros(t) == SubSeq(t, 1, MaxOf({i \in 1..Len(t) : t[i] # "0"}))

\* str(x) of a number: an int prints its digits; a float of the model with a
\* fraction has at most four binary places and prints its exact decimals
\* without trailing zeros
PyStr(a) ==
  IF IsNan(a) \/ IsInf(a) THEN FormatFixed(a, 0, FALSE)
  ELSE IF FIsIntegral(a)
  THEN (IF a.sgn < 0 /\ ~FIsZero(a) THEN <<"-">> ELSE << >>)
       \o (IF FIsZero(a) THEN <<"0">>
           ELSE DigitChars(BDecimal(BShl(a.man, a.exp))))
  ELSE StripZeros(FormatFixed(a, 4, FALSE))

-----------------------------------------------------------------------------
(* GoldSIPCalculator.calculate_sip_returns, step by step.                  *)

Raise(exc, line) == [status |-> "raise", exc |-> exc, line |-> line]
Return(value)    == [status |-> "return", value |-> value]

\* a slip: a year of instalments whatever the duration
total_investment_yearly(monthly_amount, duration_months) ==
  FMul(monthly_amount, FromInt(12))

total_investment(monthly_amount, duration_months) ==
  FMul(monthly_amount, duration_months)

\* a slip: the grams are rounded for display before they are used
total_grams_rounded(monthly_amount, average_gold_price, duration_months) ==
  PyRound(FMul(FDiv(monthly_amount, average_gold_price), duration_months), 3)

\* for average_gold_price # 0
total_grams(monthly_amount, average_gold_price, duration_months) ==
  FMul(FDiv(monthly_amount, average_gold_price), duration_months)

\* a slip: the value is taken from the grams as they are displayed
current_value_of_rounded(grams, current_gold_price) ==
  FMul(PyRound(grams, 3), current_gold_price)

current_value(grams, current_gold_price) == FMul(grams, current_gold_price)

\* a slip: the sign of the investment
profit_loss_added(value, investment) == FAdd(value, investment)

\* a slip: the operands the wrong way round
profit_loss_swapped(value, investment) == FSub(investment, value)

profit_loss(value, investment) == FSub(value, investment)

\* a slip: the ratio, not the percentage
profit_loss_ratio(profit, investment) == FDiv(profit, investment)

\* for investment # 0
profit_loss_percentage(profit, investment) ==
  FMul(FDiv(profit, investment), FromInt(100))

years(duration_months) == FDiv(duration_months, FromInt(12))

\* (((value / investment) ** (1 / years)) - 1) * 100 if years > 0 else 0
cagr_over(value, investment, years_) ==
  IF FGt(years_, FZero)
  THEN {IF o.kind = "float"
        THEN [kind |-> "float",
              val  |-> FMul(FSub(o.val, FromInt(1)), FromInt(100))]
        ELSE o :
          o \in FPow(FDiv(value, investment), FDiv(FromInt(1), years_))}
  ELSE {[kind |-> "float", val |-> FZero]}

\* the outcomes of the CAGR step for investment # 0: a float, a complex
\* number, or the OverflowError of the power
cagr(value, investment, duration_months) == cagr_over(value, investment, years(duration_months))

\* a slip: months of 31 days
end_date_long_months(start_date, duration_months) ==
  IF start_date # None
  THEN DatePlusDays(start_date, FMul(duration_months, FromInt(31)))
  ELSE None

end_date(start_date, duration_months) ==
  IF start_date # None
  THEN DatePlusDays(start_date, FMul(duration_months, FromInt(30)))
  ELSE None

\* the return statement, or the exception of the CAGR step c: a complex
\* number fails in round()
sip_result(monthly_amount, duration_months, average_gold_price, current_gold_price, start_date, ti, tg, cv, pl, c) ==
  IF c.kind = "OverflowError" THEN Raise("OverflowError", 57)
  ELSE IF c.kind = "complex" THEN Raise("TypeError", 71)
  ELSE Return(
    [monthly_amount         |-> monthly_amount,
     duration_months        |-> duration_months,
     total_investment       |-> ti,
     average_gold_price     |-> average_gold_price,
     current_gold_price     |-> current_gold_price,
     total_grams            |-> PyRound(tg, 3),
     current_value          |-> PyRound(cv, 2),
     profit_loss            |-> PyRound(pl, 2),
     profit_loss_percentage |-> PyRound(profit_loss_percentage(pl, ti), 2),
     cagr                   |-> PyRound(c.val, 2),
     start_date             |-> start_date,
     end_date               |-> end_date(start_date, duration_months)])

\* the call from the percentage on, with the profit or loss pl
sip_rated(monthly_amount, duration_months, average_gold_price, current_gold_price, start_date, ti, tg, cv, pl) ==
  IF FIsZero(ti) THEN {Raise("ZeroDivisionError", 52)}
  ELSE {sip_result(monthly_amount, duration_months, average_gold_price, current_gold_price, start_date, ti, tg, cv, pl, c) :
          c \in cagr(cv, ti, duration_months)}

\* the call from the profit or loss on, with the current value cv
sip_profit(monthly_amount, duration_months, average_gold_price, current_gold_price, start_date, ti, tg, cv) ==
  sip_rated(monthly_amount, duration_months, average_gold_price, current_gold_price, start_date, ti, tg, cv, profit_loss(cv, ti))

\* the call from the current value on, with the total investment ti and the
\* total grams tg
sip_valued(monthly_amount, duration_months, average_gold_price, current_gold_price, start_date, ti, tg) ==
  sip_profit(monthly_amount, duration_months, average_gold_price, current_gold_price, start_date, ti, tg, current_value(tg, current_gold_price))

\* the outcomes of one call: the dict returned, or the exception raised and
\* the line raising it
sip_returns(monthly_amount, duration_months, average_gold_price, current_gold_price, start_date) ==
  IF FIsZero(average_gold_price) THEN {Raise("ZeroDivisionError", 45)}
  ELSE sip_valued(monthly_amount, duration_months, average_gold_price, current_gold_price, start_date, total_investment(monthly_amount, duration_months), total_grams(monthly_amount, average_gold_price, duration_months))

-----------------------------------------------------------------------------
(* GoldSIPCalculator.calculate_monthly_breakdown.                          *)

base_price == 7500

\* a slip: the growth counted from month 1
synthesized_price_from_one(i) ==
  FMul(FromInt(base_price), FAdd(FromInt(1), FMul(Dec(1, 2), FromInt(i + 1))))

\* the synthesized price of month i (0-based)
synthesized_price(i) ==
  FMul(FromInt(base_price), FAdd(FromInt(1), FMul(Dec(1, 2), FromInt(i))))

\* the price list the loop reads: the caller's, or the synthesized one when
\* the caller's is None or empty
breakdown_prices(duration_months, gold_prices) ==
  IF gold_prices = None \/ gold_prices[1] = << >>
  THEN [i \in 1..Max(0, FFloor(duration_months)) |-> synthesized_price(i - 1)]
  ELSE gold_prices[1]

\* a slip: past the end of the list the first price, not the last
month_price_first(prices, month) ==
  IF month < Len(prices) THEN prices[month + 1] ELSE prices[1]

\* gold_prices[month] if month < len(gold_prices) else gold_prices[-1]
month_price(prices, month) ==
  IF month < Len(prices) THEN prices[month + 1] ELSE prices[Len(prices)]

month_date(start_date, month) ==
  IF start_date # None THEN DatePlusDays(start_date, FromInt(month * 30))
  ELSE None

\* a slip: the running total is overwritten, not added to
accumulate_last(total, amount) == amount

\* total += amount
accumulate(total, amount) == FAdd(total, amount)

\* a slip: floor division, whole grams only
grams_bought_whole(monthly_amount, gold_price) ==
  FromInt(FFloor(FDiv(monthly_amount, gold_price)))

\* the grams one month's amount buys at that month's price, before rounding
grams_bought(monthly_amount, gold_price) == FDiv(monthly_amount, gold_price)

\* breakdown.append(record), and the rest of the loop after it
appended(record, rest) ==
  IF rest.status = "raise" THEN rest ELSE Return(<<record>> \o rest.value)

\* the loop from iteration month on, entered with the two running totals:
\* the records appended from there, or the exception that ends the call
RECURSIVE breakdown_loop(_, _, _, _, _, _, _)
breakdown_loop(month, monthly_amount, duration, prices, start_date, cumulative_grams, cumulative_investment) ==
  IF month >= duration THEN Return(<< >>)
  ELSE
    LET gold_price == month_price(prices, month)
    IN  IF FIsZero(gold_price) THEN Raise("ZeroDivisionError", 111)
        ELSE
          LET bought       == grams_bought(monthly_amount, gold_price)
              grams        == accumulate(cumulative_grams, bought)
              investment   == accumulate(cumulative_investment, monthly_amount)
          IN  appended(
                [month                 |-> month + 1,
                 date                  |-> month_date(start_date, month),
                 investment_amount     |-> monthly_amount,
                 gold_price            |-> gold_price,
                 grams_bought          |-> PyRound(bought, 3),
                 cumulative_grams      |-> PyRound(grams, 3),
                 cumulative_investment |-> investment],
                breakdown_loop(month + 1, monthly_amount, duration, prices,
                               start_date, grams, investment))

\* a slip: one record per price of the list, not per month of the duration
monthly_breakdown_per_price(monthly_amount, duration_months, gold_prices, start_date) ==
  IF ~FIsIntegral(duration_months)
  THEN Raise("TypeError",
             IF gold_prices = None \/ gold_prices[1] = << >> THEN 100 ELSE 106)
  ELSE breakdown_loop(0, monthly_amount,
                      Len(breakdown_prices(duration_months, gold_prices)),
                      breakdown_prices(duration_months, gold_prices),
                      start_date, FZero, FZero)

\* the outcome of one call; range() refuses a duration that is not an int,
\* in the list comprehension when the prices are synthesized and else at the
\* loop
monthly_breakdown(monthly_amount, duration_months, gold_prices, start_date) ==
  IF ~FIsIntegral(duration_months)
  THEN Raise("TypeError",
             IF gold_prices = None \/ gold_prices[1] = << >> THEN 100 ELSE 106)
  ELSE breakdown_loop(0, monthly_amount, FFloor(duration_months),
                      breakdown_prices(duration_months, gold_prices),
                      start_date, FZero, FZero)

-----------------------------------------------------------------------------
(* GoldSIPCalculator.get_live_gold_price, format_currency, format_weight   *)
(* and generate_summary_text.  A text is the sequence of its pieces: fixed *)
(* phrases, and one piece per character of a formatted number ("Rs" is the *)
(* rupee sign).                                                            *)

\* the mock price on the given day of the month
live_gold_price(day) == FromInt(10500 + day * 10)

format_currency(amount) == <<"Rs">> \o FormatFixed(amount, 2, TRUE)

format_weight(grams) == FormatFixed(grams, 3, FALSE) \o <<" grams">>

Congratulations == "Congratulations! Your investment is in profit."

AtALoss == "Your investment is currently at a loss, but gold is a long-term investment."

\* a slip: no loss, no caution
closing_line_unless_loss(results) ==
  IF FLt(results.profit_loss, FZero) THEN AtALoss ELSE Congratulations

\* the last line of the summary
closing_line(results) ==
  IF FGt(results.profit_loss, FZero) THEN Congratulations ELSE AtALoss

summary_text(results) ==
  <<"Gold SIP Investment Summary", "Investment Details:", "Monthly SIP: ">>
  \o format_currency(results.monthly_amount)
  \o <<"Duration: ">> \o PyStr(results.duration_months) \o <<" months">>
  \o <<"Total Invested: ">> \o format_currency(results.total_investment)
  \o <<"Gold Purchase:", "Average Gold Price: ">>
  \o format_currency(results.average_gold_price) \o <<"/gram">>
  \o <<"Total Gold Purchased: ">> \o format_weight(results.total_grams)
  \o <<"Current Status:", "Current Gold Price: ">>
  \o format_currency(results.current_gold_price) \o <<"/gram">>
  \o <<"Current Value: ">> \o format_currency(results.current_value)
  \o <<"Returns:", "Profit/Loss: ">> \o format_currency(results.profit_loss)
  \o <<" (">> \o FormatFixed(results.profit_loss_percentage, 2, FALSE) \o <<"%)">>
  \o <<"CAGR: ">> \o FormatFixed(results.cagr, 2, FALSE) \o <<"% per annum">>
  \o <<closing_line(results)>>

-----------------------------------------------------------------------------
(* The arguments the callers pass.                                         *)

\* the longest price list a caller passes to calculate_monthly_breakdown
MaxSeriesLen == 3

Amounts   == {FromInt(1000), FromInt(10000)}
Durations == {FromInt(12), FromInt(24)}
AvgPrices == {FromInt(7000), FromInt(8000)}
CurPrices == {FromInt(8000), FromInt(10500), Dec(10500001, 3)}

\* date(2024, 1, 1)
StartDate == <<738886>>

\* the float 2.0 ** e
TwoTo(e) == [sgn |-> 1, man |-> BFromInt(1), exp |-> e]

SipArgs(m, d, a, c, s) ==
  [monthly_amount |-> m, duration_months |-> d, average_gold_price |-> a,
   current_gold_price |-> c, start_date |-> s]

\* calls within the documented domain, and calls with one argument outside it
SipInputs ==
  {SipArgs(m, d, a, c, None) :
     m \in Amounts, d \in Durations, a \in AvgPrices, c \in CurPrices}
  \cup {SipArgs(m, FromInt(12), FromInt(8000), FromInt(10500), None) :
          m \in {FZero, FromInt(-1000)}}
  \cup {SipArgs(FromInt(1000), d, FromInt(8000), FromInt(10500), None) :
          d \in {FZero, FromInt(-12), Dec(15, 1)}}
  \cup {SipArgs(FromInt(1000), FromInt(12), a, FromInt(10500), None) :
          a \in {FZero, FromInt(-8000)}}
  \cup {SipArgs(FromInt(1000), d, FromInt(8000), c, None) :
          d \in Durations, c \in {FZero, FromInt(-10500)}}
  \cup {SipArgs(FromInt(1000), d, FromInt(8000), FromInt(10500), StartDate) :
          d \in {FromInt(12), Dec(15, 1)}}
  \cup {SipArgs(Dec(1000001, 3), FromInt(12), FromInt(8000), FromInt(10500), None)}
  \cup {SipArgs(m, FromInt(12), FromInt(7000), Dec(716975, 2), None) :
          m \in {FromInt(1000), FromInt(3000)}}
  \cup {SipArgs(FromInt(1000), FromInt(12), FromInt(8000), Dec(800001, 2), None)}
  \cup {SipArgs(FromInt(1000), FromInt(6), TwoTo(-300), TwoTo(300), None)}

SeriesPrices == {FromInt(7500), FromInt(8000)}

\* the price lists of up to MaxSeriesLen prices
Series == UNION {[1..n -> SeriesPrices] : n \in 0..MaxSeriesLen}

BreakdownArgs(m, d, g, s) ==
  [monthly_amount |-> m, duration_months |-> d, gold_prices |-> g,
   start_date |-> s]

BreakdownInputs ==
  {BreakdownArgs(FromInt(5000), d, g, None) :
     d \in {FromInt(2), FromInt(6)}, g \in {None} \cup {<<l>> : l \in Series}}
  \cup {BreakdownArgs(Dec(1, 1), FromInt(6), g, None) :
          g \in {None, <<<<FromInt(7500)>>>>}}
  \cup {BreakdownArgs(m, FromInt(2), None, None) : m \in {FZero, FromInt(-5000)}}
  \cup {BreakdownArgs(FromInt(5000), d, g, None) :
          d \in {FZero, FromInt(-2), Dec(15, 1)},
          g \in {None, <<<<FromInt(7500)>>>>}}
  \cup {BreakdownArgs(FromInt(5000), FromInt(2), <<l>>, None) :
          l \in {<<FZero>>, <<FromInt(7500), FZero>>, <<FromInt(7500), FromInt(-8000)>>}}
  \cup {BreakdownArgs(FromInt(5000), FromInt(2), g, StartDate) :
          g \in {None, <<<<FromInt(8000)>>>>}}
  \cup {BreakdownArgs(FromInt(2500), FromInt(6), <<<<FromInt(9600)>>>>, None)}

\* datetime.datetime.now().day
Days == 1..31

-----------------------------------------------------------------------------
(* LiveGoldPriceAPI (gold_price_api.py).  A datetime is the number of      *)
(* seconds since midnight of the day the instance is made; one call reads  *)
(* the clock within one second, so all its datetime.now() are the same.    *)

cache_duration == 300

SecondsPerDay == 86400

GoldPriceData(price_per_gram, timestamp, source, confidence) ==
  [price_per_gram |-> price_per_gram, currency |-> "INR", unit |-> "gram",
   timestamp |-> timestamp, source |-> source, confidence |-> confidence]

\* the three remote sources: the keys are the placeholders of the source, so
\* each raises before any request is sent
fetch_from_metalpriceapi == Raise("Exception: MetalPriceAPI key not configured", 93)
fetch_from_goldapi == Raise("Exception: GoldAPI key not configured", 137)
fetch_from_fcsapi == Raise("Exception: FCS API key not configured", 176)

\* 50 * (0.5 - time_factor) at the given minute of the day
daily_variation(minute) ==
  FMul(FromInt(50), FSub(Dec(5, 1), FDiv(FromInt(minute), FromInt(24 * 60))))

\* (now.second % 20) - 10
random_variation(second) == (second % 20) - 10

mock_price(minute, second) ==
  FAdd(FAdd(FromInt(10500), daily_variation(minute)), FromInt(random_variation(second)))

fetch_mock_price(t) ==
  Return(GoldPriceData(PyRound(mock_price((t % SecondsPerDay) \div 60, t % 60), 2),
                       t, "Mock Price", Dec(5, 1)))

get_fallback_price(t) == GoldPriceData(FromInt(10500), t, "Fallback", Dec(3, 1))

\* (datetime.datetime.now() - self.cache['timestamp']).seconds: the seconds
\* field of the timedelta, which leaves the whole days out
cache_age(t, timestamp) == (t - timestamp) % SecondsPerDay

\* the cached price if still valid, else None
get_cached_price(c, t) ==
  IF c # << >> /\ cache_age(t, c.timestamp) < cache_duration THEN c.price_data ELSE None

\* the outcomes of the sources in priority order
sources(t) ==
  <<fetch_from_metalpriceapi, fetch_from_goldapi, fetch_from_fcsapi, fetch_mock_price(t)>>

\* if price_data and price_data.price_per_gram > 0
accepted(outcome) ==
  outcome.status = "return" /\ FGt(outcome.value.price_per_gram, FZero)

\* the loop over the outcomes outs from source i on, with the errors printed
\* so far: the price returned, the errors printed, and whether the price was
\* put in the cache
RECURSIVE try_sources(_, _, _, _)
try_sources(outs, i, printed, t) ==
  IF i > Len(outs)
  THEN [price_data |-> get_fallback_price(t), printed |-> printed, cached |-> FALSE]
  ELSE IF accepted(outs[i])
  THEN [price_data |-> outs[i].value, printed |-> printed, cached |-> TRUE]
  ELSE try_sources(outs, i + 1,
                   IF outs[i].status = "raise" THEN Append(printed, outs[i].exc) ELSE printed,
                   t)

\* get_current_gold_price past the cache check
first_accepted_price(t) == try_sources(sources(t), 1, << >>, t)

-----------------------------------------------------------------------------
(* One calculator instance and its caller.  A call is two steps: the       *)
(* caller passes the arguments (pc = "called"), then the method runs to    *)
(* its end and hands its outcome back (pc = "idle").                       *)

VARIABLES
  gold_prices_cache,  \* self.gold_prices_cache
  pc,                 \* "idle", or "called" while a method runs
  frame,              \* the method running and its arguments
  ret,                \* the last call ended: method, arguments, outcome
  memo,               \* history: the first calculate_sip_returns call made
                      \* with arguments of Watched, and what followed it
  cache,              \* self.cache of the LiveGoldPriceAPI instance
  now,                \* datetime.datetime.now()
  api_ret,            \* the last get_current_gold_price: what it returned
                      \* and the errors it printed
  session,            \* the Flask session of one browser, as its cookie
                      \* holds it between requests
  chat_ret            \* the last request of that browser to the web
                      \* application: what it was and how it ended

calculator_vars == <<gold_prices_cache, pc, frame, ret, memo>>

api_vars == <<cache, now, api_ret>>

chat_vars == <<session, chat_ret>>

vars == <<gold_prices_cache, pc, frame, ret, memo, cache, now, api_ret, session, chat_ret>>

NoCall == [op |-> "none"]

\* the calls the history variable follows
Watched ==
  {SipArgs(m, d, a, FromInt(10500), None) :
     m \in Amounts, d \in Durations, a \in AvgPrices}
  \cup {SipArgs(FromInt(1000), FromInt(12), FromInt(7000), Dec(716975, 2), None)}

\* GoldSIPCalculator() and LiveGoldPriceAPI()
Init ==
  /\ gold_prices_cache = << >>
  /\ pc = "idle"
  /\ frame = NoCall
  /\ ret = NoCall
  /\ memo = << >>
  /\ cache = << >>
  /\ now = 0
  /\ api_ret = NoCall
  /\ session = << >>
  /\ chat_ret = NoCall

Call(op, args) ==
  /\ pc = "idle"
  /\ pc' = "called"
  /\ frame' = [op |-> op, args |-> args]
  /\ ret' = NoCall
  /\ UNCHANGED <<gold_prices_cache, memo, api_vars, chat_vars>>

call_calculate_sip_returns ==
  \E args \in SipInputs : Call("calculate_sip_returns", args)

call_calculate_monthly_breakdown ==
  \E args \in BreakdownInputs : Call("calculate_monthly_breakdown", args)

call_get_live_gold_price == Call("get_live_gold_price", << >>)

\* the caller passes the dict that calculate_sip_returns has just returned
call_generate_summary_text ==
  /\ ret.op = "calculate_sip_returns"
  /\ ret.out.status = "return"
  /\ Call("generate_summary_text", [results |-> ret.out.value])

\* the history after a call ends: the first watched call is kept; after it,
\* seen tells whether some other call has ended since (1) and whether the
\* watched call has then been made again (2)
Remember(op, args, out) ==
  IF memo = << >>
  THEN IF op = "calculate_sip_returns" /\ args \in Watched
       THEN <<[args |-> args, out |-> out, seen |-> 0]>>
       ELSE memo
  ELSE IF op = "calculate_sip_returns" /\ args = memo[1].args
       THEN <<[memo[1] EXCEPT !.seen = IF @ = 0 THEN 0 ELSE 2]>>
       ELSE <<[memo[1] EXCEPT !.seen = IF @ = 0 THEN 1 ELSE @]>>

Finish(out) ==
  /\ pc' = "idle"
  /\ frame' = NoCall
  /\ ret' = [op |-> frame.op, args |-> frame.args, out |-> out]
  /\ memo' = Remember(frame.op, frame.args, out)
  /\ UNCHANGED <<api_vars, chat_vars>>

\* a slip: the call keeps its current_gold_price in the cache and computes
\* with the price the call before it left there
calculate_sip_returns_cached ==
  /\ pc = "called"
  /\ frame.op = "calculate_sip_returns"
  /\ \E out \in sip_returns(frame.args.monthly_amount, frame.args.duration_months,
                            frame.args.average_gold_price,
                            IF gold_prices_cache = << >>
                            THEN frame.args.current_gold_price
                            ELSE gold_prices_cache.last_price,
                            frame.args.start_date) :
       Finish(out)
  /\ gold_prices_cache' = [last_price |-> frame.args.current_gold_price]

calculate_sip_returns ==
  /\ pc = "called"
  /\ frame.op = "calculate_sip_returns"
  /\ \E out \in sip_returns(frame.args.monthly_amount, frame.args.duration_months,
                            frame.args.average_gold_price,
                            frame.args.current_gold_price, frame.args.start_date) :
       Finish(out)
  /\ UNCHANGED gold_prices_cache

\* a slip: the call keeps the price list it worked with in the cache
calculate_monthly_breakdown_caching ==
  /\ pc = "called"
  /\ frame.op = "calculate_monthly_breakdown"
  /\ Finish(monthly_breakdown(frame.args.monthly_amount, frame.args.duration_months,
                              frame.args.gold_prices, frame.args.start_date))
  /\ gold_prices_cache' = [prices |-> breakdown_prices(frame.args.duration_months,
                                                       frame.args.gold_prices)]

calculate_monthly_breakdown ==
  /\ pc = "called"
  /\ frame.op = "calculate_monthly_breakdown"
  /\ Finish(monthly_breakdown(frame.args.monthly_amount, frame.args.duration_months,
                              frame.args.gold_prices, frame.args.start_date))
  /\ UNCHANGED gold_prices_cache

get_live_gold_price ==
  /\ pc = "called"
  /\ frame.op = "get_live_gold_price"
  /\ \E day \in Days : Finish(Return(live_gold_price(day)))
  /\ UNCHANGED gold_prices_cache

generate_summary_text ==
  /\ pc = "called"
  /\ frame.op = "generate_summary_text"
  /\ Finish(Return(summary_text(frame.args.results)))
  /\ UNCHANGED gold_prices_cache

Next ==
  \/ call_calculate_sip_returns
  \/ call_calculate_monthly_breakdown
  \/ call_get_live_gold_price
  \/ call_generate_summary_text
  \/ calculate_sip_returns
  \/ calculate_monthly_breakdown
  \/ get_live_gold_price
  \/ generate_summary_text

Spec == Init /\ [][Next]_vars

-----------------------------------------------------------------------------
(* The LiveGoldPriceAPI instance, its caller and the clock.               *)

\* the clock is followed for this many days after the first, and in each day
\* for this many seconds after midnight
MaxDays == 1
MaxSecond == 400

\* the time that passes between two calls
Steps == {100, 150, SecondsPerDay}

tick ==
  /\ \E step \in Steps :
       /\ now + step <= MaxDays * SecondsPerDay + MaxSecond
       /\ (now + step) % SecondsPerDay <= MaxSecond
       /\ now' = now + step
  /\ UNCHANGED <<cache, api_ret, calculator_vars, chat_vars>>

\* self._cache_price(price_data)
cache_price(price_data, t) == [price_data |-> price_data, timestamp |-> t]

\* the call ends: what it returns, what it printed, what it leaves cached
api_return(found, c, t) ==
  /\ api_ret' = [op |-> "get_current_gold_price", status |-> "return",
                 value |-> found.price_data, printed |-> found.printed]
  /\ cache' = IF found.cached THEN cache_price(found.price_data, t) ELSE c

get_current_gold_price ==
  /\ IF get_cached_price(cache, now) # None
     THEN api_return([price_data |-> get_cached_price(cache, now),
                      printed |-> << >>, cached |-> FALSE], cache, now)
     ELSE api_return(first_accepted_price(now), cache, now)
  /\ UNCHANGED <<now, calculator_vars, chat_vars>>

ApiNext == tick \/ get_current_gold_price

ApiSpec == Init /\ [][ApiNext]_vars

-----------------------------------------------------------------------------
(* The Flask application of app.py, for one browser.  A user message is    *)
(* the sequence of its characters ("Rs" is the rupee sign); the text of a  *)
(* reply is a sequence of pieces, as the summary is.                       *)

ConversationState ==
  [WELCOME              |-> "welcome",
   ASKING_AMOUNT        |-> "asking_amount",
   ASKING_DURATION      |-> "asking_duration",
   ASKING_AVG_PRICE     |-> "asking_avg_price",
   ASKING_CURRENT_PRICE |-> "asking_current_price",
   SHOWING_RESULTS      |-> "showing_results",
   COMPLETED            |-> "completed"]

\* str.strip(): the text from its first to its last character that is not a
\* blank
strip(text) ==
  IF \A i \in 1..Len(text) : text[i] = " " THEN << >>
  ELSE SubSeq(text, MinOf({i \in 1..Len(text) : text[i] # " "}),
              MaxOf({i \in 1..Len(text) : text[i] # " "}))

UpperCase ==
  <<"A", "B", "C", "D", "E", "F", "G", "H", "I", "J", "K", "L", "M",
    "N", "O", "P", "Q", "R", "S", "T", "U", "V", "W", "X", "Y", "Z">>

LowerCase ==
  <<"a", "b", "c", "d", "e", "f", "g", "h", "i", "j", "k", "l", "m",
    "n", "o", "p", "q", "r", "s", "t", "u", "v", "w", "x", "y", "z">>

\* str.lower()
lower(text) ==
  [i \in 1..Len(text) |->
     IF \E k \in 1..26 : UpperCase[k] = text[i]
     THEN LowerCase[CHOOSE k \in 1..26 : UpperCase[k] = text[i]]
     ELSE text[i]]

\* str.replace(char, '')
removed(text, char) == SelectSeq(text, LAMBDA c : c # char)

\* the text after its sign, if it has one
unsigned(text) ==
  IF Len(text) > 0 /\ text[1] \in {"+", "-"} THEN Tail(text) ELSE text

\* -1 for a text with a minus sign in front
signum(text) == IF Len(text) > 0 /\ text[1] = "-" THEN -1 ELSE 1

\* one decimal digit or more, and nothing else
IsDigits(text) ==
  Len(text) > 0 /\ \A i \in 1..Len(text) : \E d \in 0..9 : DigitChar(d) = text[i]

\* the natural number that decimal digits write
RECURSIVE BFromDigits(_)
BFromDigits(digits) ==
  IF Len(digits) = 0 THEN << >>
  ELSE BAdd(BMulSmall(BFromDigits(SubSeq(digits, 1, Len(digits) - 1)), 10),
            BFromInt(CHOOSE d \in 0..9 : DigitChar(d) = digits[Len(digits)]))

\* where the exponent of a decimal literal in lower case begins: at its
\* first e, or past its end
ExponentMark(text) ==
  MinOf({i \in 1..Len(text) : text[i] = "e"} \cup {Len(text) + 1})

Mantissa(text) == SubSeq(text, 1, ExponentMark(text) - 1)

Exponent(text) == SubSeq(text, ExponentMark(text) + 1, Len(text))

\* an unsigned decimal literal of float(): digits with at most one point
\* among them, and after an e a whole number
IsDecimal(text) ==
  /\ IsDigits(removed(Mantissa(text), "."))
  /\ Len(Mantissa(text)) - Len(removed(Mantissa(text), ".")) <= 1
  /\ ExponentMark(text) <= Len(text) => IsDigits(unsigned(Exponent(text)))

\* the power of ten that the digits of a decimal literal are scaled by: its
\* exponent less the number of digits after the point
Scale(text) ==
  (IF ExponentMark(text) <= Len(text)
   THEN signum(Exponent(text)) * BToInt(BFromDigits(unsigned(Exponent(text))))
   ELSE 0)
  - (Len(Mantissa(text))
     - MinOf({i \in 1..Len(Mantissa(text)) : Mantissa(text)[i] = "."}
             \cup {Len(Mantissa(text))}))

\* 10^k, four digits at a time
RECURSIVE PowerOfTen(_)
PowerOfTen(k) ==
  IF k < 4 THEN BFromInt(10 ^ k) ELSE BMulSmall(PowerOfTen(k - 4), 10000)

\* the float nearest to s * n * 10^scale: beyond 10^308 every number but
\* zero is an infinity, and below 10^-330 a zero
DecimalValue(s, n, scale) ==
  IF Len(n) = 0 \/ scale + BBitLen(n) < -330
  THEN [sgn |-> s, man |-> << >>, exp |-> 0]
  ELSE IF scale > 308 THEN Inf(s)
  ELSE IF scale >= 0
  THEN Finite(RoundMan(s, BMul(n, PowerOfTen(scale)),
                       0, FALSE))
  ELSE Finite(RoundRat(s, n, PowerOfTen(-scale), 0))

\* float() of the sign s and the rest of the text in lower case
FloatOf(s, text, line) ==
  IF text = <<"n", "a", "n">> THEN Return(NaN)
  ELSE IF text \in {<<"i", "n", "f">>, <<"i", "n", "f", "i", "n", "i", "t", "y">>}
  THEN Return(Inf(s))
  ELSE IF IsDecimal(text)
  THEN Return(DecimalValue(s, BFromDigits(removed(Mantissa(text), ".")), Scale(text)))
  ELSE Raise("ValueError", line)

\* float(text) of a text of blanks, letters, digits, signs, points and
\* commas, called at the given line
float(text, line) ==
  FloatOf(signum(strip(text)), lower(unsigned(strip(text))), line)

\* int(text) of such a text
int(text, line) ==
  IF IsDigits(unsigned(strip(text)))
  THEN Return(signum(strip(text)) * BToInt(BFromDigits(unsigned(strip(text)))))
  ELSE Raise("ValueError", line)

\* raise ValueError(...) when the number parsed is not above zero
positive(parsed, line) ==
  IF parsed.status = "return" /\ FLe(parsed.value, FZero)
  THEN Raise("ValueError", line)
  ELSE parsed

\* float(user_message.replace(',', '').replace(rupee sign, '')), and the
\* check that follows it two lines below
price_or_amount(user_message, line) ==
  positive(float(removed(removed(user_message, ","), "Rs"), line), line + 2)

\* int(user_message) and the check that follows it, as a float of the model
whole_months(parsed) ==
  IF parsed.status = "raise" THEN parsed
  ELSE IF parsed.value <= 0 THEN Raise("ValueError", 100)
  ELSE Return(FromInt(parsed.value))

\* the dict with the key set to the value
Put(data, key, value) ==
  [k \in DOMAIN data \cup {key} |-> IF k = key THEN value ELSE data[k]]

Stored(state, data) == [state |-> state, data |-> data]

\* how process_chat_message ends: the session it leaves, the calculator
\* methods it has called, and what it returns or raises
Ended(sess, calls, out) == [session |-> sess, calls |-> calls, out |-> out]

bot(message) == [message |-> message, type |-> "bot"]

\* lines 56-68
welcome(sess) ==
  Ended(Stored(ConversationState.ASKING_AMOUNT, sess.data), << >>,
        Return(bot(<<"Welcome to Gold SIP Calculator!",
                     "Please enter your **monthly SIP amount** in INR (e.g., 5000, 10000):">>)))

\* lines 70-93, for the amount parsed or the ValueError
asking_amount(sess, amount) ==
  IF amount.status = "raise"
  THEN Ended(sess, << >>,
             Return(bot(<<"Please enter a valid amount in numbers only (e.g., 5000, 10000)">>)))
  ELSE Ended(Stored(ConversationState.ASKING_DURATION,
                    Put(sess.data, "monthly_amount", amount.value)),
             << >>,
             Return(bot(<<"Great! Monthly SIP amount: Rs">>
                        \o FormatFixed(amount.value, 2, TRUE)
                        \o <<"Now, please enter the **investment duration** in months (e.g., 12, 24, 36):">>)))

\* lines 95-126, on the given day of the month
asking_duration(sess, duration, day) ==
  IF duration.status = "raise"
  THEN Ended(sess, << >>,
             Return(bot(<<"Please enter a valid number of months (e.g., 12, 24, 36)">>)))
  ELSE Ended(Stored(ConversationState.ASKING_AVG_PRICE,
                    Put(sess.data, "duration_months", duration.value)),
             <<[op |-> "get_live_gold_price"]>>,
             Return(bot(<<"Perfect! Duration: ">> \o PyStr(duration.value)
                        \o <<" months",
                             "Please enter the **average gold price** during your investment period in INR per gram.",
                             "Current price: Rs">>
                        \o FormatFixed(live_gold_price(day), 2, FALSE)
                        \o <<"/gram", "Enter average gold price per gram:">>)))

\* lines 128-157
asking_avg_price(sess, avg_price, day) ==
  IF avg_price.status = "raise"
  THEN Ended(sess, << >>,
             Return(bot(<<"Please enter a valid gold price (e.g., 7000, 8000, 9000)">>)))
  ELSE Ended(Stored(ConversationState.ASKING_CURRENT_PRICE,
                    Put(sess.data, "average_gold_price", avg_price.value)),
             <<[op |-> "get_live_gold_price"]>>,
             Return(bot(<<"Noted! Average gold price: Rs">>
                        \o FormatFixed(avg_price.value, 2, TRUE)
                        \o <<"/gram",
                             "Finally, please enter the **current gold price** per gram in INR.",
                             "Live gold price: Rs">>
                        \o FormatFixed(live_gold_price(day), 2, FALSE)
                        \o <<"/gram (You can use this or enter your own)",
                             "Enter current gold price per gram:">>)))

ResultsMenu ==
  <<"Would you like to:", "Calculate for different values (type 'new')",
    "See monthly breakdown (type 'breakdown')", "Get investment tips (type 'tips')",
    "Or just say 'thanks' to end our conversation!">>

\* lines 169-174: the arguments of the call
results_call(data, current_price) ==
  [op |-> "calculate_sip_returns",
   args |-> SipArgs(data["monthly_amount"], data["duration_months"],
                    data["average_gold_price"], current_price, None)]

\* lines 176-193, for the outcome of calculate_sip_returns: an exception
\* that is not a ValueError leaves the handler, and with it the request
\* ends before the session was assigned to
results_shown(sess, current_price, outcome) ==
  IF outcome.status = "raise"
  THEN Ended(sess, <<results_call(sess.data, current_price)>>, outcome)
  ELSE Ended(Stored(ConversationState.SHOWING_RESULTS,
                    Put(Put(sess.data, "current_gold_price", current_price),
                        "results", outcome.value)),
             <<results_call(sess.data, current_price),
               [op |-> "generate_summary_text", args |-> [results |-> outcome.value]]>>,
             Return([message |-> summary_text(outcome.value) \o ResultsMenu,
                     type    |-> "bot",
                     results |-> outcome.value]))

\* lines 159-198: the ways the handler can end
asking_current_price(sess, current_price) ==
  IF current_price.status = "raise"
  THEN {Ended(sess, << >>,
              Return(bot(<<"Please enter a valid current gold price (e.g., 10200, 10500)">>)))}
  ELSE {results_shown(sess, current_price.value, outcome) :
          outcome \in sip_returns(sess.data["monthly_amount"],
                                  sess.data["duration_months"],
                                  sess.data["average_gold_price"],
                                  current_price.value, None)}

\* key in data
Has(data, key) == data # << >> /\ key \in DOMAIN data

\* one line of the breakdown text
month_line(month_data) ==
  <<"**Month ">> \o PyStr(FromInt(month_data.month))
  \o <<":** Invested Rs">> \o FormatFixed(month_data.investment_amount, 0, TRUE)
  \o <<", Gold Price: Rs">> \o FormatFixed(month_data.gold_price, 0, TRUE)
  \o <<"/gram, Bought: ">> \o FormatFixed(month_data.grams_bought, 3, FALSE)
  \o <<"g">>

\* the lines of the first n months
RECURSIVE month_lines(_, _)
month_lines(breakdown, n) ==
  IF n = 0 THEN << >>
  ELSE month_lines(breakdown, n - 1) \o month_line(breakdown[n])

\* lines 227-234
breakdown_text(breakdown) ==
  <<"**Monthly Investment Breakdown** (Sample)">>
  \o month_lines(breakdown, Min(6, Len(breakdown)))
  \o (IF Len(breakdown) > 6
      THEN <<"... (and ">> \o PyStr(FromInt(Len(breakdown) - 6)) \o <<" more months)">>
      ELSE << >>)
  \o <<"Type 'new' for a new calculation or 'thanks' to end!">>

\* lines 221-225: the arguments of the call, for a start date
breakdown_call(data, start_date) ==
  [op |-> "calculate_monthly_breakdown",
   args |-> BreakdownArgs(data["monthly_amount"],
                          IF FLt(data["duration_months"], FromInt(12))
                          THEN data["duration_months"] ELSE FromInt(12),
                          None, start_date)]

\* lines 227-239, for the outcome of calculate_monthly_breakdown
breakdown_replied(sess, call, outcome) ==
  Ended(sess, <<call>>,
        IF outcome.status = "raise" THEN outcome
        ELSE Return(bot(breakdown_text(outcome.value))))

\* lines 221-239 for a start date of the given ordinal: a date before
\* date.min is an OverflowError of the subtraction
breakdown_shown(sess, start) ==
  IF start < 1 THEN Ended(sess, << >>, Raise("OverflowError", 224))
  ELSE breakdown_replied(sess, breakdown_call(sess.data, <<start>>),
                         monthly_breakdown(sess.data["monthly_amount"],
                                           breakdown_call(sess.data, <<start>>).args.duration_months,
                                           None, <<start>>))

NewWords ==
  {<<"n", "e", "w">>, <<"c", "a", "l", "c", "u", "l", "a", "t", "e">>,
   <<"r", "e", "s", "t", "a", "r", "t">>}

BreakdownWords ==
  {<<"b", "r", "e", "a", "k", "d", "o", "w", "n">>, <<"m", "o", "n", "t", "h", "l", "y">>,
   <<"d", "e", "t", "a", "i", "l", "s">>}

TipsWords ==
  {<<"t", "i", "p", "s">>, <<"a", "d", "v", "i", "c", "e">>, <<"h", "e", "l", "p">>}

ThanksWords ==
  {<<"t", "h", "a", "n", "k", "s">>, <<"t", "h", "a", "n", "k", " ", "y", "o", "u">>,
   <<"b", "y", "e">>, <<"g", "o", "o", "d", "b", "y", "e">>}

\* a slip: the restart keeps the data of the calculation before it
restarted_keeping(sess) == Stored(ConversationState.ASKING_AMOUNT, sess.data)

\* lines 205-206: session['data'] = {} and the state of the first question
restarted(sess) == Stored(ConversationState.ASKING_AMOUNT, << >>)

\* lines 200-296, for the message in lower case; the branch of the
\* breakdown has no return for data without results, and the function then
\* returns None
showing_results(sess, user_input, today) ==
  IF user_input \in NewWords
  THEN Ended(restarted(sess), << >>,
             Return(bot(<<"Let's calculate a new Gold SIP investment!",
                          "Please enter your **monthly SIP amount** in INR (e.g., 5000, 10000):">>)))
  ELSE IF user_input \in BreakdownWords
  THEN (IF Has(sess.data, "results")
        THEN breakdown_shown(sess, today.date[1] - FFloor(sess.data["duration_months"]) * 30)
        ELSE Ended(sess, << >>, Return(None)))
  ELSE IF user_input \in TipsWords
  THEN Ended(sess, << >>,
             Return(bot(<<"**Gold SIP Investment Tips:**",
                          "Type 'new' for another calculation or 'thanks' to end!">>)))
  ELSE IF user_input \in ThanksWords
  THEN Ended(Stored(ConversationState.COMPLETED, sess.data), << >>,
             Return(bot(<<"Thank you for using the Gold SIP Calculator!",
                          "Feel free to refresh the page to calculate again anytime!">>)))
  ELSE Ended(sess, << >>,
             Return(bot(<<"I didn't understand that. You can:",
                          "Type 'new' for a new calculation",
                          "Type 'breakdown' for monthly details",
                          "Type 'tips' for investment advice",
                          "Type 'thanks' to end our conversation">>)))

PleaseRefresh == "Hi! Please refresh the page to start a new Gold SIP calculation."

\* a slip: the default reply starts the conversation again
please_refresh_restarting(sess) ==
  Ended(Stored(ConversationState.WELCOME, sess.data), << >>,
        Return(bot(<<PleaseRefresh>>)))

\* lines 298-303: the reply in any other state
please_refresh(sess) == Ended(sess, << >>, Return(bot(<<PleaseRefresh>>)))

\* the ways process_chat_message can end, for the session as chat() hands it
\* over and the date of the request
process_chat_message(user_message, state, sess, today) ==
  IF state = ConversationState.WELCOME THEN {welcome(sess)}
  ELSE IF state = ConversationState.ASKING_AMOUNT
  THEN {asking_amount(sess, price_or_amount(user_message, 73))}
  ELSE IF state = ConversationState.ASKING_DURATION
  THEN {asking_duration(sess, whole_months(int(user_message, 98)), today.day)}
  ELSE IF state = ConversationState.ASKING_AVG_PRICE
  THEN {asking_avg_price(sess, price_or_amount(user_message, 131), today.day)}
  ELSE IF state = ConversationState.ASKING_CURRENT_PRICE
  THEN asking_current_price(sess, price_or_amount(user_message, 162))
  ELSE IF state = ConversationState.SHOWING_RESULTS
  THEN {showing_results(sess, lower(user_message), today)}
  ELSE {please_refresh(sess)}

\* the messages a user sends
Messages ==
  {<<"h", "e", "l", "l", "o">>,
   <<"Rs", "5", ",", "0", "0", "0">>,
   <<" ", "2", " ">>,
   <<"-", "5">>,
   <<"n", "a", "n">>,
   <<"1", "e", "5", "6">>,
   <<"N", "e", "w">>,
   <<"b", "r", "e", "a", "k", "d", "o", "w", "n">>,
   <<"t", "i", "p", "s">>,
   <<"t", "h", "a", "n", "k", "s">>}

\* date.today() and its day of the month: 3 and 30 November 2026
Todays == {[date |-> <<739923>>, day |-> 3], [date |-> <<739950>>, day |-> 30]}

\* the session as chat() finds it or, for a browser without one, makes it
opened(sess) ==
  IF sess = << >> THEN Stored(ConversationState.WELCOME, << >>) ELSE sess

\* the request and how it ended
Request(route, user_message, sess, calls, out) ==
  [route |-> route, message |-> user_message, before |-> sess,
   calls |-> calls, out |-> out]

\* POST /chat
chat ==
  /\ \E raw \in Messages, today \in Todays :
       \E ended \in process_chat_message(strip(raw), opened(session).state,
                                         opened(session), today) :
         /\ session' = ended.session
         /\ chat_ret' = Request("/chat", strip(raw), session, ended.calls, ended.out)
  /\ UNCHANGED <<calculator_vars, api_vars>>

\* GET /
index ==
  /\ chat_ret' = Request("/", << >>, session, << >>, Return("index.html"))
  /\ UNCHANGED <<session, calculator_vars, api_vars>>

\* GET /api/gold-price
get_gold_price ==
  /\ \E today \in Todays :
       chat_ret' = Request("/api/gold-price", << >>, session,
                           <<[op |-> "get_live_gold_price"]>>,
                           Return([success |-> TRUE, price |-> live_gold_price(today.day),
                                   currency |-> "INR", unit |-> "gram",
                                   timestamp |-> today.date]))
  /\ UNCHANGED <<session, calculator_vars, api_vars>>

\* GET /reset-session
reset_session ==
  /\ session' = << >>
  /\ chat_ret' = Request("/reset-session", << >>, session, << >>,
                         Return([success |-> TRUE]))
  /\ UNCHANGED <<calculator_vars, api_vars>>

ChatNext == chat \/ index \/ get_gold_price \/ reset_session

ChatSpec == Init /\ [][ChatNext]_vars

-----------------------------------------------------------------------------
(* What the claims speak of.                                               *)

SipDone == ret.op = "calculate_sip_returns"

SipReturned == SipDone /\ ret.out.status = "return"

\* the documented domain of calculate_sip_returns: positive amount and
\* prices, a positive whole number of months
ValidSip(args) ==
  /\ FGt(args.monthly_amount, FZero)
  /\ FGt(args.duration_months, FZero) /\ FIsIntegral(args.duration_months)
  /\ FGt(args.average_gold_price, FZero)
  /\ FGt(args.current_gold_price, FZero)

FAbs(a) == [a EXCEPT !.sgn = 1]

\* monthly_amount / average_gold_price * duration_months * current_gold_price,
\* never rounded to decimals
FullValue(args) ==
  FMul(FMul(FDiv(args.monthly_amount, args.average_gold_price),
            args.duration_months),
       args.current_gold_price)

\* C1: for valid inputs the total_investment returned by
\* calculate_sip_returns is monthly_amount * duration_months exactly.
C1_TotalInvestment ==
  (SipReturned /\ ValidSip(ret.args)) =>
    ret.out.value.total_investment
      = FMul(ret.args.monthly_amount, ret.args.duration_months)

C1_Witness ==
  /\ SipReturned
  /\ ValidSip(ret.args)
  /\ ret.args.duration_months = FromInt(24)
  /\ ret.out.value.total_investment = FromInt(240000)

\* C2 as claimed: for valid inputs the returned current_value is the returned
\* (3-decimal) total_grams times current_gold_price, at 2 decimals.
C2_ValueOfReturnedGrams ==
  (SipReturned /\ ValidSip(ret.args)) =>
    ret.out.value.current_value
      = PyRound(FMul(ret.out.value.total_grams, ret.args.current_gold_price), 2)

\* C2 amended: for valid inputs the returned current_value is the unrounded
\* grams (monthly_amount / average_gold_price * duration_months) times
\* current_gold_price, rounded once to 2 decimals; the returned total_grams
\* is the same unrounded grams at 3 decimals, so the product of the returned
\* fields is within 0.0005 * current_gold_price + 0.01 of current_value.
C2_ValueOfUnroundedGrams ==
  (SipReturned /\ ValidSip(ret.args)) =>
    /\ ret.out.value.current_value = PyRound(FullValue(ret.args), 2)
    /\ ret.out.value.total_grams
         = PyRound(FMul(FDiv(ret.args.monthly_amount, ret.args.average_gold_price),
                        ret.args.duration_months), 3)
    /\ FLe(FAbs(FSub(ret.out.value.current_value,
                     FMul(ret.out.value.total_grams, ret.args.current_gold_price))),
           FAdd(FMul(Dec(5, 4), ret.args.current_gold_price), Dec(1, 2)))

\* a valid call whose value is not the value of the grams it returns
C2_Witness ==
  /\ SipReturned
  /\ ValidSip(ret.args)
  /\ ret.out.value.total_grams = Dec(1714, 3)
  /\ ret.out.value.current_value = FromInt(18000)
  /\ ret.args.current_gold_price = FromInt(10500)

PricePair ==
  /\ memo # << >>
  /\ memo[1].out.status = "return"
  /\ SipReturned
  /\ ret.args = [memo[1].args EXCEPT
                   !.current_gold_price = ret.args.current_gold_price]

\* the call of the pair at the lower and at the higher price
Low  == IF FLt(ret.args.current_gold_price, memo[1].args.current_gold_price)
        THEN ret.out.value ELSE memo[1].out.value
High == IF FLt(ret.args.current_gold_price, memo[1].args.current_gold_price)
        THEN memo[1].out.value ELSE ret.out.value

\* C4 as claimed: of two calls that differ only in current_gold_price, the one
\* at the higher price returns a strictly greater current_value and
\* profit_loss.
C4_StrictlyMonotone ==
  (PricePair /\ ret.args # memo[1].args) =>
    /\ FGt(High.current_value, Low.current_value)
    /\ FGt(High.profit_loss, Low.profit_loss)

\* C4 amended: of two calls with valid inputs that differ only in
\* current_gold_price, the one at the higher price returns a current_value
\* and a profit_loss that are greater or equal (equal when the 2-decimal
\* rounding takes both prices to the same value).
C4_Monotone ==
  (PricePair /\ ret.args # memo[1].args /\ ValidSip(ret.args)) =>
    /\ FLe(Low.current_value, High.current_value)
    /\ FLe(Low.profit_loss, High.profit_loss)

\* a pair in which the higher price returns strictly more, and the pair is
\* the remembered call at 10500 against a later call at 8000
C4_Witness ==
  /\ PricePair
  /\ ValidSip(ret.args)
  /\ ret.args.current_gold_price = FromInt(8000)
  /\ FLt(ret.out.value.current_value, memo[1].out.value.current_value)
  /\ FLt(ret.out.value.profit_loss, memo[1].out.value.profit_loss)

\* C5 as claimed: a call of calculate_sip_returns with a non-positive amount
\* or price, or a duration that is non-positive or not a whole number, fails
\* with InvalidParameter and returns no result.
C5_RejectsInvalid ==
  (SipDone /\ ~ValidSip(ret.args)) =>
    (ret.out.status = "raise" /\ ret.out.exc = "InvalidParameter")

BreakdownDone == ret.op = "calculate_monthly_breakdown"

BreakdownReturned == BreakdownDone /\ ret.out.status = "return"

\* the number of months asked for, when it is a positive whole number
PositiveMonths(args) ==
  FGt(args.duration_months, FZero) /\ FIsIntegral(args.duration_months)

\* the caller's price list, empty when there is none
GivenPrices(args) ==
  IF args.gold_prices = None THEN << >> ELSE args.gold_prices[1]

AllPositive(prices) == \A i \in 1..Len(prices) : FGt(prices[i], FZero)

\* the documented domain of calculate_monthly_breakdown
ValidBreakdown(args) ==
  /\ FGt(args.monthly_amount, FZero)
  /\ PositiveMonths(args)
  /\ AllPositive(GivenPrices(args))

\* C6: for every positive duration, with no price series or one of any length
\* (of positive prices), calculate_monthly_breakdown returns a list of exactly
\* duration_months records whose months are 1, 2, ..., duration_months in
\* that order.
C6_OneRecordPerMonth ==
  (BreakdownDone /\ PositiveMonths(ret.args) /\ AllPositive(GivenPrices(ret.args))) =>
    /\ ret.out.status = "return"
    /\ Len(ret.out.value) = FFloor(ret.args.duration_months)
    /\ \A i \in 1..Len(ret.out.value) : ret.out.value[i].month = i

\* a list longer than the duration: three prices, two records
C6_Witness ==
  /\ BreakdownReturned
  /\ Len(GivenPrices(ret.args)) = 3
  /\ ret.args.duration_months = FromInt(2)
  /\ Len(ret.out.value) = 2
  /\ ret.out.value[2].month = 2

\* C7 as claimed: in the list returned for valid inputs cumulative_grams and
\* cumulative_investment never decrease from a record to the next, and the
\* record of month N has cumulative_investment = monthly_amount * N.
C7_CumulativeInvestment ==
  (BreakdownReturned /\ ValidBreakdown(ret.args)) =>
    /\ \A i \in 1..(Len(ret.out.value) - 1) :
         /\ FLe(ret.out.value[i].cumulative_grams,
                ret.out.value[i + 1].cumulative_grams)
         /\ FLe(ret.out.value[i].cumulative_investment,
                ret.out.value[i + 1].cumulative_investment)
    /\ \A i \in 1..Len(ret.out.value) :
         FEq(ret.out.value[i].cumulative_investment,
             FMul(ret.args.monthly_amount, FromInt(i)))

\* C8: given a list of L positive prices, 1 <= L < duration_months, no error
\* is raised and record i (0-based) has the price list[i] for i < L and the
\* last price list[L-1] for every i >= L.
C8_LastPriceRepeats ==
  (/\ BreakdownDone
   /\ PositiveMonths(ret.args)
   /\ AllPositive(GivenPrices(ret.args))
   /\ 1 <= Len(GivenPrices(ret.args))
   /\ Len(GivenPrices(ret.args)) < FFloor(ret.args.duration_months)) =>
    /\ ret.out.status = "return"
    /\ \A i \in 0..(Len(ret.out.value) - 1) :
         ret.out.value[i + 1].gold_price
           = IF i < Len(GivenPrices(ret.args))
             THEN GivenPrices(ret.args)[i + 1]
             ELSE GivenPrices(ret.args)[Len(GivenPrices(ret.args))]

\* two prices for six months: 7500, then 8000 from the second month to the
\* last
C8_Witness ==
  /\ BreakdownReturned
  /\ GivenPrices(ret.args) = <<FromInt(7500), FromInt(8000)>>
  /\ Len(ret.out.value) = 6
  /\ ret.out.value[1].gold_price = FromInt(7500)
  /\ ret.out.value[6].gold_price = FromInt(8000)

\* C9: called without a price series, record i (0-based) has gold_price =
\* 7500 * (1 + 0.01 * i) (7500 in month 1, 7875 in month 6) and its
\* grams_bought is monthly_amount / gold_price at 3 decimals (0.667 for
\* 5000 / 7500).
C9_SynthesizedPrices ==
  (BreakdownDone /\ PositiveMonths(ret.args) /\ ret.args.gold_prices = None) =>
    /\ ret.out.status = "return"
    /\ \A i \in 0..(Len(ret.out.value) - 1) :
         /\ ret.out.value[i + 1].gold_price
              = FMul(FromInt(7500), FAdd(FromInt(1), FMul(Dec(1, 2), FromInt(i))))
         /\ ret.out.value[i + 1].grams_bought
              = PyRound(FDiv(ret.args.monthly_amount,
                             ret.out.value[i + 1].gold_price), 3)
    /\ Len(ret.out.value) >= 1 => ret.out.value[1].gold_price = FromInt(7500)
    /\ Len(ret.out.value) >= 6 => ret.out.value[6].gold_price = FromInt(7875)
    /\ ret.args.monthly_amount = FromInt(5000) =>
         ret.out.value[1].grams_bought = Dec(667, 3)

\* 5000 a month for six months, no price series
C9_Witness ==
  /\ BreakdownReturned
  /\ ret.args.gold_prices = None
  /\ ret.args.monthly_amount = FromInt(5000)
  /\ Len(ret.out.value) = 6
  /\ ret.out.value[6].gold_price = FromInt(7875)
  /\ ret.out.value[1].grams_bought = Dec(667, 3)

\* C10: a call of calculate_sip_returns with the arguments of an earlier call
\* has the outcome of that call, whatever was called on the instance in
\* between.
C10_Deterministic ==
  (memo # << >> /\ SipDone /\ ret.args = memo[1].args) =>
    ret.out = memo[1].out

\* the remembered call made again after other calls have ended
C10_Witness ==
  /\ memo # << >>
  /\ memo[1].seen = 2
  /\ SipReturned
  /\ ret.args = memo[1].args
  /\ ret.out = memo[1].out

\* the CAGR step of calculate_sip_returns is reached (lines 45 and 52 have
\* not raised) with current_value <= 0 and years > 0
CagrOfNoValue(args) ==
  /\ ~FIsZero(args.average_gold_price)
  /\ ~FIsZero(FMul(args.monthly_amount, args.duration_months))
  /\ FLe(FullValue(args), FZero)
  /\ FGt(FDiv(args.duration_months, FromInt(12)), FZero)

\* C11 as claimed: when the CAGR step is reached with current_value <= 0 and
\* years > 0 the call raises DomainError or returns the sentinel None for
\* cagr; it never returns a number for cagr.
C11_DomainError ==
  (SipDone /\ CagrOfNoValue(ret.args)) =>
    \/ ret.out.status = "raise" /\ ret.out.exc = "DomainError"
    \/ ret.out.status = "return" /\ ret.out.value.cagr = None

\* the caller's price list has at least one price and all its prices are
\* the same
ConstantSeries(args) ==
  /\ Len(GivenPrices(args)) >= 1
  /\ \A i \in 1..Len(GivenPrices(args)) : GivenPrices(args)[i] = GivenPrices(args)[1]

\* C12 as claimed: for a price series constant at average_price the
\* cumulative_grams of the last record of calculate_monthly_breakdown is the
\* total_grams that calculate_sip_returns returns for the same
\* monthly_amount, duration_months and average_price.
C12_SameGrams ==
  (BreakdownReturned /\ ValidBreakdown(ret.args) /\ ConstantSeries(ret.args)) =>
    \A o \in sip_returns(ret.args.monthly_amount, ret.args.duration_months,
                         GivenPrices(ret.args)[1], GivenPrices(ret.args)[1], None) :
      /\ o.status = "return"
      /\ FEq(ret.out.value[Len(ret.out.value)].cumulative_grams, o.value.total_grams)

SummaryDone == ret.op = "generate_summary_text" /\ ret.out.status = "return"

\* C14: the text of generate_summary_text ends with the congratulatory line
\* if results['profit_loss'] > 0 and with the cautionary line if it is zero
\* or negative, and exactly one of the two lines is in the text.
C14_ClosingLine ==
  SummaryDone =>
    /\ ret.out.value[Len(ret.out.value)]
         = IF FGt(ret.args.results.profit_loss, FZero)
           THEN "Congratulations! Your investment is in profit."
           ELSE "Your investment is currently at a loss, but gold is a long-term investment."
    /\ Cardinality({i \in 1..Len(ret.out.value) :
                      ret.out.value[i] \in
                        {"Congratulations! Your investment is in profit.",
                         "Your investment is currently at a loss, but gold is a long-term investment."}})
         = 1

\* the summary of a result with neither profit nor loss: the cautionary line
C14_Witness ==
  /\ SummaryDone
  /\ FIsZero(ret.args.results.profit_loss)
  /\ ret.out.value[Len(ret.out.value)]
       = "Your investment is currently at a loss, but gold is a long-term investment."

\* calculate_sip_returns(monthly_amount=10000, duration_months=24,
\* average_gold_price=8000, current_gold_price=10500)
Scenario1 == SipArgs(FromInt(10000), FromInt(24), FromInt(8000), FromInt(10500), None)

\* C15: the call of Scenario1 returns total_investment 240000, total_grams
\* 30.0, current_value 315000.00, profit_loss 75000.00 and
\* profit_loss_percentage 31.25.
C15_Scenario ==
  (SipDone /\ ret.args = Scenario1) =>
    /\ ret.out.status = "return"
    /\ FEq(ret.out.value.total_investment, FromInt(240000))
    /\ FEq(ret.out.value.total_grams, FromInt(30))
    /\ FEq(ret.out.value.current_value, FromInt(315000))
    /\ FEq(ret.out.value.profit_loss, FromInt(75000))
    /\ FEq(ret.out.value.profit_loss_percentage, Dec(3125, 2))

\* the call of Scenario1 has returned
C15_Witness ==
  /\ SipReturned
  /\ ret.args = Scenario1
  /\ ret.out.value.profit_loss_percentage = Dec(3125, 2)
  /\ ret.out.value.total_grams = FromInt(30)

ApiDone == api_ret.op = "get_current_gold_price"

\* C16 as claimed: a call of get_current_gold_price in which a source has
\* failed ends in an error; it never returns a price.
C16_FailureSurfaces ==
  (ApiDone /\ api_ret.printed # << >>) => api_ret.status = "raise"

\* for valid arguments, the fields that the dict rounds, each the one
\* rounding of the value computed at full precision from the arguments
RoundedOnce(args, value) ==
  /\ value.total_grams
       = PyRound(FMul(FDiv(args.monthly_amount, args.average_gold_price),
                      args.duration_months), 3)
  /\ value.current_value = PyRound(FullValue(args), 2)
  /\ value.profit_loss
       = PyRound(FSub(FullValue(args), FMul(args.monthly_amount, args.duration_months)), 2)
  /\ value.profit_loss_percentage
       = PyRound(FMul(FDiv(FSub(FullValue(args),
                                FMul(args.monthly_amount, args.duration_months)),
                           FMul(args.monthly_amount, args.duration_months)),
                      FromInt(100)), 2)
  /\ value.cagr \in
       {PyRound(FMul(FSub(o.val, FromInt(1)), FromInt(100)), 2) :
          o \in FPow(FDiv(FullValue(args), FMul(args.monthly_amount, args.duration_months)),
                     FDiv(FromInt(1), FDiv(args.duration_months, FromInt(12))))}

\* C17 as claimed: in the dict returned for valid inputs total_investment,
\* current_value and profit_loss are rounded to 2 decimals, total_grams to 3
\* and the two percentages to 2, each the one rounding of the full-precision
\* value.
C17_AllRounded ==
  (SipReturned /\ ValidSip(ret.args)) =>
    /\ RoundedOnce(ret.args, ret.out.value)
    /\ ret.out.value.total_investment
         = PyRound(FMul(ret.args.monthly_amount, ret.args.duration_months), 2)

\* C17 amended: in the dict returned for valid inputs current_value and
\* profit_loss are rounded to 2 decimals, total_grams to 3 and the two
\* percentages to 2, each the one rounding of the full-precision value;
\* total_investment is monthly_amount * duration_months, not rounded.
C17_RoundedOnce ==
  (SipReturned /\ ValidSip(ret.args)) =>
    /\ RoundedOnce(ret.args, ret.out.value)
    /\ ret.out.value.total_investment
         = FMul(ret.args.monthly_amount, ret.args.duration_months)

\* a valid call whose total_investment has more than 2 decimals
C17_Witness ==
  /\ SipReturned
  /\ ValidSip(ret.args)
  /\ ret.args.monthly_amount = Dec(1000001, 3)
  /\ PyRound(ret.out.value.total_investment, 2) = Dec(1200001, 2)
  /\ ret.out.value.total_investment # Dec(1200001, 2)
  /\ ret.out.value.current_value = Dec(1575002, 2)

\* the date the given number of days after start, None when start is None
DaysAfter(start, days) == IF start = None THEN None ELSE <<start[1] + days>>

\* C18: calculate_sip_returns returns end_date = start_date + 30 *
\* duration_months days, and record i (0-based) of
\* calculate_monthly_breakdown has date = start_date + 30 * i days; without
\* a start_date, end_date and every date are None.
C18_ThirtyDayMonths ==
  /\ (SipReturned /\ FIsIntegral(ret.args.duration_months)) =>
       ret.out.value.end_date
         = DaysAfter(ret.args.start_date, 30 * FFloor(ret.args.duration_months))
  /\ BreakdownReturned =>
       \A i \in 0..(Len(ret.out.value) - 1) :
         ret.out.value[i + 1].date = DaysAfter(ret.args.start_date, 30 * i)

\* twelve months from 2024-01-01 end 360 days later, on 2024-12-26
C18_Witness ==
  /\ SipReturned
  /\ ret.args.start_date = StartDate
  /\ ret.args.duration_months = FromInt(12)
  /\ ret.out.value.end_date = <<738886 + 360>>

\* C19 as claimed: a call of calculate_monthly_breakdown with a non-positive
\* monthly_amount, a duration_months that is non-positive or not a whole
\* number, or a non-positive price in the list, fails and returns no list.
C19_RejectsInvalid ==
  (BreakdownDone /\ ~ValidBreakdown(ret.args)) => ret.out.status = "raise"

\* the first k numbers of a sequence added one at a time, in order, from 0
RECURSIVE FSum(_, _)
FSum(numbers, k) == IF k = 0 THEN FZero ELSE FAdd(FSum(numbers, k - 1), numbers[k])

\* the grams_bought fields and the investment_amount fields of the records
GramsBought(records) == [i \in 1..Len(records) |-> records[i].grams_bought]
InvestmentAmounts(records) == [i \in 1..Len(records) |-> records[i].investment_amount]

\* monthly_amount / gold_price of each record, not rounded
GramsUnrounded(records) ==
  [i \in 1..Len(records) |-> FDiv(records[i].investment_amount, records[i].gold_price)]

\* C20 as claimed: in the list returned, cumulative_grams of record k is the
\* sum of the grams_bought of records 1..k and cumulative_investment of
\* record k is the sum of the investment_amount of records 1..k.
C20_PrefixSums ==
  BreakdownReturned =>
    \A k \in 1..Len(ret.out.value) :
      /\ FEq(ret.out.value[k].cumulative_grams, FSum(GramsBought(ret.out.value), k))
      /\ FEq(ret.out.value[k].cumulative_investment,
             FSum(InvestmentAmounts(ret.out.value), k))

\* C20 amended: in the list returned, cumulative_grams of record k is the
\* sum of the unrounded monthly_amount / gold_price of records 1..k, added
\* in order and rounded once to 3 decimals, which is within 0.001 * k of the
\* sum of the grams_bought fields; cumulative_investment of record k is the
\* sum of the investment_amount of records 1..k, added in order.
C20_RunningTotals ==
  BreakdownReturned =>
    \A k \in 1..Len(ret.out.value) :
      /\ FEq(ret.out.value[k].cumulative_grams,
             PyRound(FSum(GramsUnrounded(ret.out.value), k), 3))
      /\ FLe(FAbs(FSub(ret.out.value[k].cumulative_grams,
                       FSum(GramsBought(ret.out.value), k))),
             FMul(Dec(1, 3), FromInt(k)))
      /\ FEq(ret.out.value[k].cumulative_investment,
             FSum(InvestmentAmounts(ret.out.value), k))

\* 5000 a month at 7500: 0.667 and 0.667 grams bought, 1.333 in total
C20_Witness ==
  /\ BreakdownReturned
  /\ ValidBreakdown(ret.args)
  /\ Len(ret.out.value) >= 2
  /\ ret.out.value[1].grams_bought = Dec(667, 3)
  /\ ret.out.value[2].grams_bought = Dec(667, 3)
  /\ ret.out.value[2].cumulative_grams = Dec(1333, 3)

\* C21: every record of a returned breakdown carries the call's monthly
\* amount as its investment_amount, and its grams_bought is that amount
\* divided by the gold_price of the same record, rounded to 3 decimals.
C21_RecordFields ==
  BreakdownReturned =>
    \A i \in 1..Len(ret.out.value) :
      /\ ret.out.value[i].investment_amount = ret.args.monthly_amount
      /\ ret.out.value[i].grams_bought =
           PyRound(FDiv(ret.out.value[i].investment_amount,
                        ret.out.value[i].gold_price), 3)

\* a breakdown of several months at different prices whose grams differ
C21_Witness ==
  /\ BreakdownReturned
  /\ Len(ret.out.value) >= 2
  /\ ret.out.value[1].gold_price # ret.out.value[2].gold_price
  /\ ret.out.value[1].grams_bought # ret.out.value[2].grams_bought
  /\ ~FIsZero(ret.out.value[1].grams_bought)

\* C22 as claimed: a call with duration_months = 0 (years = 0) takes the else
\* branch of the CAGR step and returns a result whose cagr is 0.
C22_ZeroYears ==
  (SipDone /\ FIsZero(years(ret.args.duration_months))) =>
    (ret.out.status = "return" /\ FIsZero(ret.out.value.cagr))

\* C23 as claimed: a call of get_current_gold_price returns without
\* consulting a source (nothing is printed, no source runs) exactly when a
\* price was cached less than cache_duration seconds earlier; at any age of
\* cache_duration seconds or more, ages beyond one day included, the sources
\* are consulted again.
C23_FreshWithin300 ==
  [][get_current_gold_price =>
       (api_ret'.printed = << >>
          <=> (cache # << >> /\ now - cache.timestamp < cache_duration))]_vars

\* the two calls differ at most in monthly_amount
SameButAmount(args, other) ==
  /\ args.duration_months = other.duration_months
  /\ args.average_gold_price = other.average_gold_price
  /\ args.current_gold_price = other.current_gold_price
  /\ args.start_date = other.start_date

\* C29 as claimed: two calls with valid arguments that differ only in
\* monthly_amount return the same profit_loss_percentage and the same cagr,
\* and the cagr returned is positive exactly when the profit_loss returned is.
C29_AmountIndependent ==
  (SipReturned /\ ValidSip(ret.args)) =>
    /\ (memo # << >> /\ memo[1].out.status = "return"
          /\ SameButAmount(ret.args, memo[1].args)) =>
         /\ ret.out.value.profit_loss_percentage
              = memo[1].out.value.profit_loss_percentage
         /\ ret.out.value.cagr = memo[1].out.value.cagr
    /\ FGt(ret.out.value.cagr, FZero) <=> FGt(ret.out.value.profit_loss, FZero)

\* C30 as claimed: a call of calculate_sip_returns whose four numbers are
\* positive and whose duration is a positive integer completes without
\* raising.
C30_NeverRaises ==
  (SipDone /\ ValidSip(ret.args)) => ret.out.status = "return"

\* the request last served was a POST /chat
ChatDone == chat_ret # NoCall /\ chat_ret.route = "/chat"

\* the session that request found, as chat() opened it
Before == opened(chat_ret.before)

\* the state after each state of the walk
WalkNext(state) ==
  CASE state = ConversationState.WELCOME -> ConversationState.ASKING_AMOUNT
    [] state = ConversationState.ASKING_AMOUNT -> ConversationState.ASKING_DURATION
    [] state = ConversationState.ASKING_DURATION -> ConversationState.ASKING_AVG_PRICE
    [] state = ConversationState.ASKING_AVG_PRICE -> ConversationState.ASKING_CURRENT_PRICE
    [] state = ConversationState.ASKING_CURRENT_PRICE -> ConversationState.SHOWING_RESULTS
    [] OTHER -> state

\* the calls of calculate_sip_returns that request made
SipCalls == SelectSeq(chat_ret.calls, LAMBDA c : c.op = "calculate_sip_returns")

\* the request computed with the three values the session held and the
\* number its message parses to
FourValuesOfWalk(call) ==
  /\ call.args.monthly_amount = Before.data["monthly_amount"]
  /\ call.args.duration_months = Before.data["duration_months"]
  /\ call.args.average_gold_price = Before.data["average_gold_price"]
  /\ call.args.current_gold_price = price_or_amount(chat_ret.message, 162).value

\* C24 as claimed: up to SHOWING_RESULTS a chat request leaves the state
\* where it was or moves it to the next state of the walk, and
\* calculate_sip_returns is called only by a request that moves the state
\* from ASKING_CURRENT_PRICE to SHOWING_RESULTS, with the three values the
\* session collected and the one the message brings.
C24_LinearWalk ==
  ChatDone =>
    /\ Before.state # ConversationState.SHOWING_RESULTS
         => session.state \in {Before.state, WalkNext(Before.state)}
    /\ \A i \in 1..Len(SipCalls) :
         /\ Before.state = ConversationState.ASKING_CURRENT_PRICE
         /\ session.state = ConversationState.SHOWING_RESULTS
         /\ FourValuesOfWalk(SipCalls[i])

AskingStates ==
  {ConversationState.ASKING_AMOUNT, ConversationState.ASKING_DURATION,
   ConversationState.ASKING_AVG_PRICE, ConversationState.ASKING_CURRENT_PRICE}

NumberKeys ==
  {"monthly_amount", "duration_months", "average_gold_price", "current_gold_price"}

PositiveFinite(x) == ~IsNan(x) /\ ~IsInf(x) /\ FGt(x, FZero)

\* the message is a positive finite number, for the duration a positive
\* integer, in the notation the state's handler reads
ParsesPositive(state, user_message) ==
  IF state = ConversationState.ASKING_DURATION
  THEN int(user_message, 98).status = "return" /\ int(user_message, 98).value > 0
  ELSE /\ float(removed(removed(user_message, ","), "Rs"), 73).status = "return"
       /\ PositiveFinite(float(removed(removed(user_message, ","), "Rs"), 73).value)

ErrorPrompts ==
  {"Please enter a valid amount in numbers only (e.g., 5000, 10000)",
   "Please enter a valid number of months (e.g., 12, 24, 36)",
   "Please enter a valid gold price (e.g., 7000, 8000, 9000)",
   "Please enter a valid current gold price (e.g., 10200, 10500)"}

\* C25 as claimed: in the four asking states a message that is no positive
\* finite number leaves the session as it was and is answered with the
\* error prompt; every number in the session data, and every number passed
\* to calculate_sip_returns, is positive and finite.
C25_OnlyPositiveFinite ==
  /\ (ChatDone /\ Before.state \in AskingStates
        /\ ~ParsesPositive(Before.state, chat_ret.message))
       => /\ session = chat_ret.before
          /\ chat_ret.out.status = "return"
          /\ chat_ret.out.value.message[1] \in ErrorPrompts
  /\ session # << >> =>
       \A k \in DOMAIN session.data \cap NumberKeys : PositiveFinite(session.data[k])
  /\ ChatDone =>
       \A i \in 1..Len(SipCalls) :
         /\ PositiveFinite(SipCalls[i].args.monthly_amount)
         /\ PositiveFinite(SipCalls[i].args.duration_months)
         /\ PositiveFinite(SipCalls[i].args.average_gold_price)
         /\ PositiveFinite(SipCalls[i].args.current_gold_price)

ResultKeys == NumberKeys \cup {"results"}

\* C26 as claimed: a session in SHOWING_RESULTS holds the four numbers and
\* the results, and every chat request ends with process_chat_message
\* returning a reply with a message.
C26_AlwaysReplies ==
  /\ (session # << >> /\ session.state = ConversationState.SHOWING_RESULTS)
       => ResultKeys \subseteq DOMAIN session.data
  /\ ChatDone =>
       /\ chat_ret.out.status = "return"
       /\ chat_ret.out.value # None
       /\ "message" \in DOMAIN chat_ret.out.value

\* the request asked for the breakdown or for the tips
BreakdownOrTips ==
  lower(chat_ret.message) \in {<<"b", "r", "e", "a", "k", "d", "o", "w", "n">>,
                               <<"t", "i", "p", "s">>}

\* C27: in SHOWING_RESULTS a message of 'new', 'calculate' or 'restart'
\* leaves the session with empty data in ASKING_AMOUNT, and 'breakdown' and
\* 'tips' leave the session as it was; data is empty whenever the amount is
\* asked for, and the results a session holds are those of
\* calculate_sip_returns for the four numbers it holds.
C27_RestartClears ==
  /\ (ChatDone /\ Before.state = ConversationState.SHOWING_RESULTS
        /\ lower(chat_ret.message) \in NewWords)
       => session = Stored(ConversationState.ASKING_AMOUNT, << >>)
  /\ (ChatDone /\ Before.state = ConversationState.SHOWING_RESULTS /\ BreakdownOrTips)
       => session = chat_ret.before
  /\ (session # << >> /\ session.state = ConversationState.ASKING_AMOUNT)
       => session.data = << >>
  /\ (session # << >> /\ session.state = ConversationState.SHOWING_RESULTS)
       => Return(session.data["results"])
            \in sip_returns(session.data["monthly_amount"],
                            session.data["duration_months"],
                            session.data["average_gold_price"],
                            session.data["current_gold_price"], None)

\* a restart from a session that held results, in a message of mixed case
C27_Witness ==
  /\ ChatDone
  /\ Before.state = ConversationState.SHOWING_RESULTS
  /\ Has(Before.data, "results")
  /\ chat_ret.message = <<"N", "e", "w">>
  /\ session.data = << >>

\* C28: 'thanks' and the like in SHOWING_RESULTS set the state COMPLETED and
\* keep the data; in COMPLETED a message changes nothing in the session and
\* gets the reply that asks to refresh the page; the other routes but
\* /reset-session leave the session alone; /reset-session leaves no
\* session, and the message after it is answered with the welcome and
\* leaves the state ASKING_AMOUNT.
C28_CompletedAbsorbs ==
  /\ (ChatDone /\ Before.state = ConversationState.SHOWING_RESULTS
        /\ lower(chat_ret.message) \in ThanksWords)
       => session = Stored(ConversationState.COMPLETED, Before.data)
  /\ (ChatDone /\ Before.state = ConversationState.COMPLETED)
       => /\ session = chat_ret.before
          /\ chat_ret.out = Return(bot(<<PleaseRefresh>>))
  /\ (chat_ret # NoCall /\ chat_ret.route \in {"/", "/api/gold-price"})
       => session = chat_ret.before
  /\ (chat_ret # NoCall /\ chat_ret.route = "/reset-session") => session = << >>
  /\ (ChatDone /\ chat_ret.before = << >>)
       => /\ session = Stored(ConversationState.ASKING_AMOUNT, << >>)
          /\ chat_ret.out = welcome(Before).out

\* a message sent to a completed conversation
C28_Witness ==
  /\ ChatDone
  /\ Before.state = ConversationState.COMPLETED
  /\ Has(session.data, "results")

====
